---------------------------- MODULE Spec2Model ----------------------------
(***************************************************************************)
(* Cubeathon front end: the ledger client (CubeathonService in its three   *)
(* source variants), the two-phase start_game authorization hand-off and   *)
(* the finality polling loops.                                             *)
(*                                                                         *)
(* Variants of the service found in the sources:                           *)
(*   "simple"  services/cubeathonService.ts lines 40-268                   *)
(*   "full"    services/cubeathonService.ts lines 326-624                  *)
(*   "vite"    vite.config.ts lines 95-514                                 *)
(*                                                                         *)
(* One service call is in flight at a time (a single-threaded actor); the  *)
(* network (account lookup, dry-run, submission, status polling, latest    *)
(* ledger) and the signer are the environment: every answer they can give  *)
(* is chosen with \E at the step that awaits it.                           *)
(***************************************************************************)
EXTENDS Integers, Sequences, FiniteSets, TLC

(* ------------------------------ bounds -------------------------------- *)

\* largest stake amount a user types or an artifact carries
MaxStake == 2
\* longest obligation list a dry-run returns
MaxAuth == 2
\* cap on the status queries of one call when the polling loops are studied
PollCap == 31
\* cap on the status queries of one call when the hand-off is studied
HandoffPolls == 2
\* how many hand-off TTL periods may elapse
MaxTtlWaits == 1
\* highest account sequence number the ledger reaches
MaxSeq == 1
\* NOT_FOUND answers are counted up to this many
NotFoundTracked == 4
\* the "small number" of early NOT_FOUND answers a polling loop must ride out
NotFoundTolerance == 3
\* TRACK_LENGTH of the endless-run game (20000 in the source), shortened so
\* that a run passes two walls
TrackLength == 2400
\* INITIAL_WALLS of the endless-run game (20 in the source)
InitialWalls == 2
\* a level is completed in 1..MaxLevelTime milliseconds
MaxLevelTime == 4
\* generateTrack is given session ids whose 16-bit words lie within this
\* distance of 0, of 2^15 and of 2^16 - 1
SeedSpread == 1
\* cap on the status queries of a call whose polling loop is not studied
ShortPolls == 1
\* largest high word of a stake whose encoding is decoded again
MaxHi == 1

(* ------------------------- program constants -------------------------- *)

LEDGERS_PER_MINUTE == 12
MULTI_SIG_AUTH_TTL_MINUTES == 60
FULL_IMPORT_TTL_MINUTES == 60
VITE_IMPORT_TTL_MINUTES == 30
START_GAME_RETRIES == 30
SUBMIT_SCORE_RETRIES == 15
END_SESSION_RETRIES == 20
IMPORT_NOT_FOUND_RETRIES == 15
\* parseAuthEntry's fallback tuple in the simple variant
FALLBACK_SESSION == 0
FALLBACK_POINTS == 1000000

\* the endless-run game component
ROAD_LEFT == 20
ROAD_RIGHT == 980
ROAD_W == ROAD_RIGHT - ROAD_LEFT
CUBE_W == 52
FINISH_CLEAR_ZONE == 700
\* ... and in the second copy of the component
FINISH_CLEAR_ZONE_B == 2500

\* the level game (games/cubeathon/CubeathonGame.tsx)
LEVEL_ROAD_LEFT == 60
LEVEL_ROAD_RIGHT == 800
LEVEL_ROAD_W == LEVEL_ROAD_RIGHT - LEVEL_ROAD_LEFT
LEVEL_CUBE_W == 52
LEVEL_CUBE_H == 52
WALL_H == 36
GAP_W == 130
WALL_GAP_PADDING == 14
\* BASE_SPEEDS [2.2, 3.8, 5.5] in tenths of a pixel per frame
BASE_SPEEDS == <<22, 38, 55>>
\* pixels the cube moves sideways in one frame while a key is held
STEER_STEP == 5
WALLS_PER_LEVEL == <<7, 9, 13>>
TRACK_SPACING == <<420, 340, 260>>
\* the LCG of generateTrack, s * 1664525 + 1013904223 mod 2^32, and the level
\* multiplier 0xdeadbeef, each as <<high, low>> 16-bit words
LCG_A == <<25, 26125>>
LCG_C == <<15470, 62303>>
LEVEL_K == <<57005, 48879>>
WORD == 65536

(* ------------------------------- data --------------------------------- *)

Variants == {"simple", "full", "vite"}

\* Alice initiates, Bob is the counterpart; SimulationP2 is the stand-in
\* account handlePrepare passes as player2.
Alice == "Alice"
Bob == "Bob"
SimulationP2 == "GDO5KFBD"
Accounts == {Alice, Bob, SimulationP2}

SessionIds == {7}
\* the session the mounted game component was given (its sessionId prop)
gameSessionId == CHOOSE sid \in SessionIds : TRUE

\* no submitScore call is running in the background
NoCall == [pc |-> "none", seq |-> 0, after |-> ""]
Stakes == 0..MaxStake

AddressCred == "sorobanCredentialsAddress"
SourceCred == "sorobanCredentialsSourceAccount"

NoArgs == <<0, "", "", 0, 0>>

\* start_game(session_id, player1, player2, player1_points, player2_points)
StartGameArgs(sessionId, player1, player2, p1Points, p2Points) ==
    <<sessionId, player1, player2, p1Points, p2Points>>

\* 2^64 in the source (hi << 64n), scaled to 2^2: an i128 ScVal is the pair
\* of its signed high word and its unsigned low word
I128_LO_RADIX == 4
I128Hi(v) == v \div I128_LO_RADIX
I128Lo(v) == v % I128_LO_RADIX
\* nativeToScVal(v, { type: "i128" }) and scValToNative of such a value
nativeToScValI128(v) == <<I128Hi(v), I128Lo(v)>>
scValToNativeI128(sc) == sc[1] * I128_LO_RADIX + sc[2]

\* the ScVal argument list contract.call("start_game", ...args) is given:
\* u32, address, address, i128, i128
ScArgs(a) == <<a[1], a[2], a[3], nativeToScValI128(a[4]), nativeToScValI128(a[5])>>

\* An authorization entry: the credential (with its account, its signature
\* and its expiration ledger) and the root invocation it approves.
AuthEntry(cred, addr, fn, a, sig, exp) ==
    [cred |-> cred, addr |-> addr, fn |-> fn, args |-> a, sig |-> sig, exp |-> exp]

\* The text a user pastes into the import box, by what it decodes to:
\*   "xdr"  base64 of a SorobanAuthorizationEntry (field entry)
\*   "json" base64 of the simple variant's JSON {sessionId, player1, p1Points}
\*   "text" anything else
XdrArtifact(e) == [kind |-> "xdr", entry |-> e]

\* p1Points.toString() of a non-negative bigint: its decimal digits, and
\* BigInt(text) of such a digit string
RECURSIVE toString(_)
toString(n) == IF n < 10 THEN <<n>> ELSE Append(toString(n \div 10), n % 10)
RECURSIVE BigInt(_)
BigInt(t) ==
    IF t = <<>> THEN 0 ELSE 10 * BigInt(SubSeq(t, 1, Len(t) - 1)) + t[Len(t)]

\* simple variant prepareStartGame: { sessionId, player1, p1Points: text }
JsonArtifact(sessionId, player1, p1Points) ==
    [kind |-> "json",
     entry |-> AuthEntry("", player1, "",
                         <<sessionId, player1, "", toString(p1Points), 0>>, "", 0)]
TextArtifact == [kind |-> "text", entry |-> AuthEntry("", "", "", NoArgs, "", 0)]


(* -------------------------- pure functions ---------------------------- *)

\* What the user typed into a points box: an optional stray sign or letter
\* (which parsePoints strips) and the amount, or nothing usable at all.
TypedPoints == [stray : BOOLEAN, amount : Stakes \cup {-1}]

\* App.tsx parsePoints: every character that is not a digit or a dot is
\* removed, so a typed sign is lost; an empty remainder gives null (-1 here).
parsePoints(t) == IF t.amount = -1 THEN -1 ELSE t.amount

\* handlePrepare / handleImport: `!points || points <= 0n`
InvalidPoints(p) == p = -1 \/ p = 0 \/ p <= 0

\* ledgerUtils.calculateValidUntilLedger, with Math.ceil of a whole number
calculateValidUntilLedger(latest, ttlMinutes) ==
    latest + ttlMinutes * LEDGERS_PER_MINUTE

ParseError == [ok |-> FALSE, sessionId |-> 0, player1 |-> "", player1Points |-> 0]
Parsed(sessionId, player1, p1Points) ==
    [ok |-> TRUE, sessionId |-> sessionId, player1 |-> player1, player1Points |-> p1Points]

\* the pasted text itself, which the simple variant returns as player1
RawText == "<pasted text>"

\* simple variant: JSON.parse of the base64-decoded text, the stake being
\* BigInt(decoded.p1Points || "1000000"); on any failure the catch returns
\* the fallback tuple with the text itself as player1
parseAuthEntrySimple(x) ==
    IF x.kind = "json"
    THEN Parsed(x.entry.args[1], x.entry.addr,
                IF x.entry.args[4] = <<>> THEN FALLBACK_POINTS
                ELSE BigInt(x.entry.args[4]))
    ELSE Parsed(FALLBACK_SESSION, RawText, FALLBACK_POINTS)

\* a parser that takes player1 from the wrong argument index
parseAuthEntryWrongIndex(x) ==
    IF x.kind # "xdr" THEN ParseError
    ELSE IF x.entry.cred # AddressCred THEN ParseError
    ELSE Parsed(x.entry.args[1], x.entry.args[3], scValToNativeI128(x.entry.args[4]))

\* full variant: fromXDR throws on text that is no XDR, creds.address()
\* throws on a source-account credential; the function name is not read.
\* (Every modelled XDR entry has five arguments, a u32 at 0 and an i128 at 3.)
parseAuthEntryFull(x) ==
    IF x.kind # "xdr" THEN ParseError
    ELSE IF x.entry.cred # AddressCred THEN ParseError
    ELSE Parsed(x.entry.args[1], x.entry.addr, scValToNativeI128(x.entry.args[4]))

\* a decoder that keeps only the low word of the stake
parseAuthEntryLowWord(x) ==
    IF x.kind # "xdr" THEN ParseError
    ELSE IF x.entry.cred # AddressCred THEN ParseError
    ELSE IF x.entry.fn # "start_game" THEN ParseError
    ELSE Parsed(x.entry.args[1], x.entry.addr, x.entry.args[4][2])

\* vite variant: checks the credential type and the function name; the
\* stake is hi << 64 | lo, which is hi * 2^64 + lo for a low word below 2^64
parseAuthEntryVite(x) ==
    IF x.kind # "xdr" THEN ParseError
    ELSE IF x.entry.cred # AddressCred THEN ParseError
    ELSE IF x.entry.fn # "start_game" THEN ParseError
    ELSE Parsed(x.entry.args[1], x.entry.addr,
                x.entry.args[4][1] * I128_LO_RADIX + x.entry.args[4][2])

parseAuthEntry(v, x) ==
    CASE v = "simple" -> parseAuthEntrySimple(x)
      [] v = "full" -> parseAuthEntryFull(x)
      [] v = "vite" -> parseAuthEntryVite(x)

\* stellar-sdk authorizeEntry as the service uses it: an address credential
\* gets the signer's signature and the expiration ledger
authorizeEntry(e, signer, validUntil) ==
    IF e.cred # AddressCred THEN e
    ELSE [e EXCEPT !.sig = signer, !.exp = validUntil]

\* the obligation list a dry-run of fn(a) can return: one unsigned entry per
\* chosen credential, in the order the network chose
\* (an address credential of either player of the call or of an account
\* that is no party to it, or the credential of the transaction's source
\* account)
CredChoices(a) ==
    {<<AddressCred, a[2]>>, <<AddressCred, a[3]>>, <<AddressCred, SimulationP2>>,
     <<SourceCred, "">>}
CredLists(a) == UNION {[1..n -> CredChoices(a)] : n \in 0..MaxAuth}
Obligations(creds, fn, a) ==
    [k \in 1..Len(creds) |-> AuthEntry(creds[k][1], creds[k][2], fn, ScArgs(a), "", 0)]

(* ------------------------------ state --------------------------------- *)

VARIABLES
    callVariant,    \* which CubeathonService variant runs the call
    op,             \* the service method in flight, "" when none
    pc,             \* the await the call is suspended at
    args,           \* the arguments of the contract call the method built
    player1AuthXDR, \* the imported artifact, <<>> when none
    parsed,         \* what parseAuthEntry returned, <<>> when not called
    auth,           \* the obligation list being merged
    simAuth,        \* the obligation list as the first dry-run returned it
    i,              \* index of the merge loop
    accountSeq,     \* sequence number held by `account`, the first lookup
    freshSeq,       \* sequence number held by `freshAccount`, the second lookup
    sims,           \* dry-runs done by this call
    footprint,      \* which dry-run's result is assembled (0: none)
    validUntil,     \* expiration ledger computed for this call's signature
    signerAddr,     \* account whose key the signer holds
    signerAsked,    \* signature requests made by this call
    signerFailed,   \* the signer answered with an error
    txSigned,       \* signedTxXdr carries the submitter's signature
    sent,           \* the envelope given to sendTransaction, <<>> when none
    status,         \* status of the last response (resp / finalResp / t)
    retries,        \* the loop's retries counter
    polls,          \* getTransaction calls made by this call
    notFounds,      \* NOT_FOUND answers among them (counted up to NotFoundTracked)
    result,         \* what the call reported to its caller, <<>> while running
    uiError,        \* the handler rejected the input before calling the service
    exportedXDR,    \* the artifact prepareStartGame returned to handlePrepare
    ledgerSeq,      \* network: latest ledger sequence
    netSeq,         \* network: sequence number of the submitting account
    gameCopy,       \* which copy of the game component is mounted
    activeGame,     \* App: an on-chain session is loaded (the isOnChain prop)
    phase,          \* the phase state of the component: the overlay shown
    loopPhase,      \* g.current.phase: what gameLoop and the keyboard handler act on
    difficulty,     \* difficultyRef.current
    rngSeed,        \* g.current.rngSeed
    cameraY,        \* g.current.cameraY
    cubeX,          \* g.current.cubeX
    walls,          \* g.current.walls
    lastSpawnY,     \* g.current.lastSpawnY
    finishing,      \* handleFinalize is running
    finalized,      \* handleFinalize saw endSession return
    scoreCall,      \* the submitScore call submitFinalScore left running
    trackLevel,     \* level game: the level savedLevel() returned
    trackSeed,      \* level game: the sessionId prop, as <<high, low>> 16-bit words
    track,          \* level game: what generateTrack returned, <<>> before the call
    devCurrentPlayer, \* DevWalletService.currentPlayer, 0 for null
    devKeypairs,    \* DevWalletService.keypairs: the players holding a keypair
    walletStore,    \* the zustand wallet store
    microtasks,     \* continuations waiting behind an await, in queue order
    quickPc,        \* where handleQuickstart is suspended, "none" when not running
    appSessionId,   \* App: the sessionId state
    appActiveGame,  \* App: the activeGame state, <<>> for null, else <<its sessionId>>
    gameActive,     \* App: the gameActive state
    exportedSession, \* App: exportedXDR, <<>> for null, else <<the session it was made for>>
    levelPhase,     \* level game: g.current.phase
    sLevel,         \* level game: g.current.level
    storedLevel,    \* level game: the 'level' item of local storage, <<>> when absent
    totalTimeMs,    \* level game: g.current.totalTimeMs
    levelRecords    \* level game: g.current.levelRecords

callVars == <<callVariant, op, pc, args, player1AuthXDR, parsed, auth, simAuth, i,
              accountSeq,
              freshSeq,
              sims, footprint, validUntil, signerAddr, signerAsked, signerFailed,
              txSigned, sent, status, retries, polls, notFounds, result, uiError,
              exportedXDR>>
walletVars == <<devCurrentPlayer, devKeypairs, walletStore, microtasks, quickPc>>
appVars == <<appSessionId, appActiveGame, gameActive, exportedSession>>
levelVars == <<levelPhase, sLevel, storedLevel, totalTimeMs, levelRecords>>
trackVars == <<trackLevel, trackSeed, track, walletVars, appVars, levelVars>>
gameVars == <<gameCopy, activeGame, phase, loopPhase, difficulty, rngSeed, cameraY, cubeX, walls,
              lastSpawnY, finishing, finalized, scoreCall, trackVars>>
vars == <<callVars, ledgerSeq, netSeq, gameVars>>

\* groups left alone by most steps
callInputs == <<callVariant, op, args, player1AuthXDR, parsed, signerAddr, uiError>>
inputVars == <<callInputs, simAuth>>
pollVars == <<status, retries, polls, notFounds>>
netVars == <<exportedXDR, ledgerSeq, netSeq>>

Return(v) == <<[kind |-> "return", value |-> v]>>
Throw(m) == <<[kind |-> "throw", value |-> m]>>

Envelope(fn, a, au, seq, fp, signed) ==
    [fn |-> fn, args |-> a, auth |-> au, seq |-> seq, footprint |-> fp, signed |-> signed]

\* the call-local state before a call starts, and the network's
InitLocals ==
    /\ op = ""
    /\ pc = "idle"
    /\ player1AuthXDR = <<>>
    /\ parsed = <<>>
    /\ auth = <<>>
    /\ simAuth = <<>>
    /\ i = 0
    /\ accountSeq = 0
    /\ freshSeq = 0
    /\ sims = 0
    /\ footprint = 0
    /\ validUntil = 0
    /\ signerAddr = ""
    /\ signerAsked = 0
    /\ signerFailed = FALSE
    /\ txSigned = FALSE
    /\ sent = <<>>
    /\ status = ""
    /\ retries = 0
    /\ polls = 0
    /\ notFounds = 0
    /\ result = <<>>
    /\ uiError = ""
    /\ exportedXDR = <<>>
    /\ ledgerSeq = 0
    /\ netSeq = 0

\* the game component as it mounts: useRef / useState initial values
GameMounted ==
    /\ phase = "idle"
    /\ loopPhase = "idle"
    /\ difficulty = "normal"
    /\ rngSeed = gameSessionId
    /\ cameraY = 0
    /\ cubeX = (ROAD_W - CUBE_W) \div 2
    /\ walls = <<>>
    /\ lastSpawnY = 0
    /\ finishing = FALSE
    /\ finalized = FALSE
    /\ scoreCall = NoCall

\* initialState of store/walletSlice.ts
WalletInitialState ==
    [publicKey |-> "", walletType |-> "", isConnected |-> FALSE, isConnecting |-> FALSE,
     currentPlayer |-> 0, error |-> ""]

\* App, the wallet and the level game as they are constructed, nothing stored
ShellMounted ==
    /\ devCurrentPlayer = 0
    /\ devKeypairs = {}
    /\ walletStore = WalletInitialState
    /\ microtasks = <<>>
    /\ quickPc = "none"
    /\ appSessionId = gameSessionId
    /\ appActiveGame = <<>>
    /\ gameActive = FALSE
    /\ exportedSession = <<>>
    /\ levelPhase = "idle"
    /\ sLevel = 1
    /\ storedLevel = <<>>
    /\ totalTimeMs = 0
    /\ levelRecords = <<>>

\* the level game before its first level starts
LevelGameMounted ==
    /\ trackLevel = 1
    /\ trackSeed = <<0, gameSessionId>>
    /\ track = <<>>
    /\ ShellMounted

Init ==
    /\ callVariant = "simple"
    /\ args = NoArgs
    /\ InitLocals
    /\ gameCopy = "A"
    /\ activeGame = FALSE
    /\ GameMounted
    /\ LevelGameMounted

(* --------------------------- call entries ----------------------------- *)

\* The artifacts that reach the import box. Prepared: what prepareStartGame
\* exports when Alice prepares at ledger 0, with the stand-in player2
\* (handlePrepare) or with Bob (handleQuickstart), both stakes being hers.
PreparedEntry(sid, player2, s) ==
    AuthEntry(AddressCred, Alice, "start_game",
              ScArgs(StartGameArgs(sid, Alice, player2, s, s)), Alice, calculateValidUntilLedger(0, MULTI_SIG_AUTH_TTL_MINUTES))
PreparedArtifacts ==
    {XdrArtifact(PreparedEntry(sid, p2, s)) :
        sid \in SessionIds, p2 \in {SimulationP2, Bob}, s \in 1..MaxStake}
\* Hand-made or damaged: a zero stake, an invocation of another function
\* with the same argument types, a source-account credential, text that is
\* no XDR, and the simple variant's JSON.
CraftedArtifacts ==
    {XdrArtifact(PreparedEntry(sid, Bob, 0)) : sid \in SessionIds}
        \cup {XdrArtifact([PreparedEntry(sid, Bob, 1) EXCEPT !.fn = "other_fn"]) :
                sid \in SessionIds}
        \cup {XdrArtifact([PreparedEntry(sid, Bob, 1) EXCEPT !.cred = SourceCred]) :
                sid \in SessionIds}
        \cup {TextArtifact}
        \cup {JsonArtifact(sid, Alice, 1) : sid \in SessionIds}

\* what can be pasted into the import box
Importable == PreparedArtifacts \cup CraftedArtifacts

\* the contract function a service method invokes
ContractFn(o) ==
    CASE o = "startGame" -> "start_game"
      [] o = "prepareStartGame" -> "start_game"
      [] o = "importAndStartGame" -> "start_game"
      [] o = "submitScore" -> "submit_score"
      [] o = "endSession" -> "end_session"
      [] OTHER -> ""

\* a service method starts and runs to its first await, s.getAccount
BeginCall(v, o, a, signer, x, pr) ==
    /\ callVariant' = v
    /\ op' = o
    /\ args' = a
    /\ signerAddr' = signer
    /\ player1AuthXDR' = x
    /\ parsed' = pr
    /\ pc' = "getAccount"
    /\ uiError' = ""
    /\ UNCHANGED <<auth, simAuth, i, accountSeq, freshSeq, sims, footprint, validUntil,
                   signerAsked, signerFailed, txSigned, sent, pollVars, result, netVars>>

\* ... called from the App's handlers, which leave the game component alone
Begin(v, o, a, signer, x, pr) ==
    /\ BeginCall(v, o, a, signer, x, pr)
    /\ UNCHANGED gameVars

\* a handler rejects its input without calling the service
Reject(msg) ==
    /\ uiError' = msg
    /\ pc' = "done"
    /\ UNCHANGED <<callVariant, op, args, player1AuthXDR, parsed, signerAddr, auth, simAuth, i,
                   accountSeq, freshSeq, sims, footprint, validUntil, signerAsked, signerFailed,
                   txSigned, sent, pollVars, result, netVars, gameVars>>

\* App.tsx handlePrepare (connected as Alice): validates the typed stake and
\* calls prepareStartGame with the stand-in player2 and p1Points twice.
handlePrepare(v, typed) ==
    /\ pc = "idle"
    /\ IF InvalidPoints(parsePoints(typed))
       THEN Reject("Enter a valid points amount.")
       ELSE \E sid \in SessionIds :
              Begin(v, "prepareStartGame",
                    StartGameArgs(sid, Alice, SimulationP2,
                                  parsePoints(typed), parsePoints(typed)),
                    Alice, <<>>, <<>>)

\* importAndStartGame's own prefix: parseAuthEntry, args, then getAccount
importAndStartGame(v, x, player2, player2Points) ==
    LET pr == parseAuthEntry(v, x) IN
    IF ~pr.ok
    THEN /\ callVariant' = v
         /\ op' = "importAndStartGame"
         /\ player1AuthXDR' = <<x>>
         /\ parsed' = <<pr>>
         /\ signerAddr' = player2
         /\ pc' = "done"
         /\ result' = Throw(<<"parseAuthEntry failed">>)
         /\ UNCHANGED <<args, uiError, auth, simAuth, i, accountSeq, freshSeq, sims, footprint, validUntil,
                        signerAsked, signerFailed, txSigned, sent, pollVars, netVars, gameVars>>
    ELSE Begin(v, "importAndStartGame",
               StartGameArgs(pr.sessionId, pr.player1, player2,
                             pr.player1Points, player2Points),
               player2, <<x>>, <<pr>>)

\* App.tsx handleImport (connected as Bob): validates Bob's typed stake,
\* parses the pasted artifact, refuses Bob's own entry, then imports.
handleImport(v, x, typed) ==
    /\ pc = "idle"
    /\ IF InvalidPoints(parsePoints(typed))
       THEN Reject("Enter valid Player 2 points.")
       ELSE IF ~parseAuthEntry(v, x).ok
       THEN Reject("Import failed")
       ELSE IF parseAuthEntry(v, x).player1 = Bob
       THEN Reject("You cannot import your own auth entry (you are Player 1).")
       ELSE importAndStartGame(v, x, Bob, parsePoints(typed))

\* simple variant startGame(sessionId, player1, player2, p1Points, p2Points):
\* the submitter, player2, is the only signer
startGame(a) ==
    /\ pc = "idle"
    /\ Begin("simple", "startGame", a, a[3], <<>>, <<>>)

\* submitScore(sessionId, player, timeMs, signer, ...), from the game's
\* submitFinalScore
submitScore(v, sid, player) ==
    /\ pc = "idle"
    /\ Begin(v, "submitScore", <<sid, player, "", 0, 0>>, player, <<>>, <<>>)

\* endSession(sessionId, runner, signer), from the game's handleFinalize
endSession(v, sid, runner) ==
    /\ pc = "idle"
    /\ v \in {"simple", "vite"}
    /\ Begin(v, "endSession", <<sid, runner, "", 0, 0>>, runner, <<>>, <<>>)

\* parseAuthEntry called on its own (a synchronous method)
callParseAuthEntry(v, x) ==
    /\ pc = "idle"
    /\ callVariant' = v
    /\ op' = "parseAuthEntry"
    /\ player1AuthXDR' = <<x>>
    /\ parsed' = <<parseAuthEntry(v, x)>>
    /\ pc' = "done"
    /\ result' = IF parseAuthEntry(v, x).ok THEN Return(<<"tuple">>)
                 ELSE Throw(<<"parseAuthEntry failed">>)
    /\ UNCHANGED <<args, signerAddr, uiError, auth, simAuth, i, accountSeq, freshSeq, sims, footprint,
                   validUntil, signerAsked, signerFailed, txSigned, sent, pollVars,
                   netVars, gameVars>>


(* ------------------------ steps up to submission ----------------------- *)

\* the call ends by throwing
Fail(m) ==
    /\ pc' = "done"
    /\ result' = Throw(m)

\* s.getAccount(source): the account object carries the ledger's current
\* sequence number; the request can fail
GetAccount ==
    /\ pc = "getAccount"
    /\ \E ok \in BOOLEAN :
         IF ok
         THEN /\ accountSeq' = netSeq
              /\ pc' = "simulate"
              /\ UNCHANGED result
         ELSE /\ Fail(<<"getAccount failed">>)
              /\ UNCHANGED accountSeq
    /\ UNCHANGED <<inputVars, auth, i, freshSeq, sims, footprint, validUntil, signerAsked,
                   signerFailed, txSigned, sent, pollVars, netVars, gameVars>>

\* a search that takes the first address-credential entry, whoever it names
FindFirstAddressEntry(au, player1) ==
    LET hits == {k \in 1..Len(au) : au[k].cred = AddressCred}
    IN IF hits = {} THEN <<>>
       ELSE <<au[CHOOSE k \in hits : \A m \in hits : k <= m]>>

\* prepareStartGame: the first address-credential entry naming player1
FindP1Entry(au, player1) ==
    LET hits == {k \in 1..Len(au) : au[k].cred = AddressCred /\ au[k].addr = player1}
    IN IF hits = {} THEN <<>>
       ELSE <<au[CHOOSE k \in hits : \A m \in hits : k <= m]>>

\* s.simulateTransaction(tx): the first dry-run of every method. A
\* simulation error ends the call (startGame, buildAndSimulate and
\* importAndStartGame throw; the simple submitScore / endSession pass the
\* error on to assembleTransaction, which throws).
Simulate(credLists) ==
    /\ pc = "simulate"
    /\ sims' = sims + 1
    /\ \E ok \in BOOLEAN, creds \in credLists :
         LET obl == Obligations(creds, ContractFn(op), args) IN
         IF ~ok
         THEN /\ creds = <<>>
              /\ Fail(<<"Simulation failed">>)
              /\ UNCHANGED <<auth, simAuth, footprint>>
         ELSE IF op = "prepareStartGame"
         THEN IF Len(obl) = 0
              THEN /\ Fail(<<"No auth entries returned.">>)
                   /\ simAuth' = obl
                   /\ UNCHANGED <<auth, footprint>>
              ELSE IF FindP1Entry(obl, args[2]) = <<>>
              THEN /\ Fail(<<"No auth entry found for Player 1">>)
                   /\ simAuth' = obl
                   /\ UNCHANGED <<auth, footprint>>
              ELSE /\ auth' = FindP1Entry(obl, args[2])
                   /\ simAuth' = obl
                   /\ pc' = "latestLedger"
                   /\ UNCHANGED <<result, footprint>>
         ELSE IF op = "importAndStartGame"
         THEN /\ auth' = obl
              /\ simAuth' = obl
              /\ footprint' = sims'
              /\ pc' = "latestLedger"
              /\ UNCHANGED result
         ELSE /\ creds = <<>>
              /\ footprint' = sims'
              /\ pc' = "signTx"
              /\ UNCHANGED <<auth, simAuth, result>>
    /\ UNCHANGED <<callInputs, i, accountSeq, freshSeq, validUntil, signerAsked, signerFailed,
                   txSigned, sent, pollVars, netVars, gameVars>>

\* a merge that goes by position: the fragment at index 1, player2's
\* signature at index 2
MergeByIndex(au, k, p1Signed, player2) ==
    IF k > Len(au) THEN <<au, k>>
    ELSE IF k = 1 THEN <<[au EXCEPT ![1] = p1Signed], 2>>
    ELSE IF k = 2 THEN <<au, 2>>
    ELSE <<au, Len(au) + 1>>

\* the merge loop of importAndStartGame from index k up to its next await:
\* the entry of the fragment's account is replaced by the fragment, an entry
\* of player2 stops the loop at the signer, every other entry is skipped
RECURSIVE Merge(_, _, _, _)
Merge(au, k, p1Signed, player2) ==
    IF k > Len(au) THEN <<au, k>>
    ELSE IF au[k].cred # AddressCred THEN Merge(au, k + 1, p1Signed, player2)
    ELSE IF au[k].addr = p1Signed.addr
    THEN Merge([au EXCEPT ![k] = p1Signed], k + 1, p1Signed, player2)
    ELSE IF au[k].addr = player2 THEN <<au, k>>
    ELSE Merge(au, k + 1, p1Signed, player2)

\* minutes of validity each method asks calculateValidUntilLedger for
TtlMinutes(v, o) ==
    IF o = "prepareStartGame" THEN MULTI_SIG_AUTH_TTL_MINUTES
    ELSE IF v = "full" THEN FULL_IMPORT_TTL_MINUTES
    ELSE VITE_IMPORT_TTL_MINUTES

\* where importAndStartGame goes once the loop has passed index k
AfterMerge(m) ==
    /\ auth' = m[1]
    /\ i' = m[2]
    /\ pc' = IF m[2] <= Len(m[1]) THEN "authLoop" ELSE "freshAccount"

\* calculateValidUntilLedger: server.getLatestLedger()
LatestLedger ==
    /\ pc = "latestLedger"
    /\ \E ok \in BOOLEAN :
         IF ~ok
         THEN /\ Fail(<<"getLatestLedger failed">>)
              /\ UNCHANGED <<validUntil, auth, i>>
         ELSE /\ validUntil' = calculateValidUntilLedger(ledgerSeq,
                                                         TtlMinutes(callVariant, op))
              /\ UNCHANGED result
              /\ IF op = "prepareStartGame"
                 THEN /\ pc' = "signAuth"
                      /\ UNCHANGED <<auth, i>>
                 ELSE AfterMerge(Merge(auth, 1, player1AuthXDR[1].entry, args[3]))
    /\ UNCHANGED <<inputVars, accountSeq, freshSeq, sims, footprint, signerAsked, signerFailed,
                   txSigned, sent, pollVars, netVars, gameVars>>

\* prepareStartGame: authorizeEntry(p1Entry, signAuthEntry, validUntil); the
\* signed entry is returned and handlePrepare stores it in exportedXDR
SignAuth ==
    /\ pc = "signAuth"
    /\ signerAsked' = signerAsked + 1
    /\ \E ok \in BOOLEAN :
         IF ~ok
         THEN /\ signerFailed' = TRUE
              /\ Fail(<<"signer error">>)
              /\ UNCHANGED <<auth, exportedXDR>>
         ELSE /\ auth' = <<authorizeEntry(auth[1], signerAddr, validUntil)>>
              /\ exportedXDR' = <<XdrArtifact(auth'[1])>>
              /\ pc' = "done"
              /\ result' = Return(<<"xdr">>)
              /\ UNCHANGED signerFailed
    /\ UNCHANGED <<inputVars, i, accountSeq, freshSeq, sims, footprint, validUntil, txSigned,
                   sent, pollVars, ledgerSeq, netSeq, gameVars>>

\* importAndStartGame: player2Signer.signAuthEntry for auth[i], then the loop
\* goes on to its next await
AuthLoop ==
    /\ pc = "authLoop"
    /\ signerAsked' = signerAsked + 1
    /\ \E ok \in BOOLEAN :
         IF ~ok
         THEN /\ signerFailed' = TRUE
              /\ Fail(<<"signer error">>)
              /\ UNCHANGED <<auth, i>>
         ELSE /\ AfterMerge(Merge([auth EXCEPT ![i] =
                                      authorizeEntry(auth[i], signerAddr, validUntil)],
                                  i + 1, player1AuthXDR[1].entry, args[3]))
              /\ UNCHANGED <<signerFailed, result>>
    /\ UNCHANGED <<inputVars, accountSeq, freshSeq, sims, footprint, validUntil, txSigned, sent,
                   pollVars, netVars, gameVars>>

\* importAndStartGame: freshAccount = s.getAccount(player2). The full
\* variant then simulates finalTx; the vite variant assembles finalTx with
\* the first simulation's result.
FreshAccount ==
    /\ pc = "freshAccount"
    /\ \E ok \in BOOLEAN :
         IF ok
         THEN /\ freshSeq' = netSeq
              /\ pc' = IF callVariant = "full" THEN "finalSim" ELSE "signTx"
              /\ UNCHANGED result
         ELSE /\ Fail(<<"getAccount failed">>)
              /\ UNCHANGED freshSeq
    /\ UNCHANGED <<inputVars, auth, i, accountSeq, sims, footprint, validUntil,
                   signerAsked, signerFailed, txSigned, sent, pollVars, netVars, gameVars>>

\* full importAndStartGame: finalSim = s.simulateTransaction(finalTx)
FinalSimulate ==
    /\ pc = "finalSim"
    /\ sims' = sims + 1
    /\ \E ok \in BOOLEAN :
         IF ok
         THEN /\ footprint' = sims'
              /\ pc' = "signTx"
              /\ UNCHANGED result
         ELSE /\ Fail(<<"Execution would fail on-chain">>)
              /\ UNCHANGED footprint
    /\ UNCHANGED <<inputVars, auth, i, accountSeq, freshSeq, validUntil, signerAsked,
                   signerFailed, txSigned, sent, pollVars, netVars, gameVars>>

\* the methods that destructure only signedTxXdr and never read error
IgnoresSignError(v, o) == v = "simple" /\ o \in {"submitScore", "endSession"}

\* signer.signTransaction(assembled.toXDR(), ...): on failure the signer
\* returns the unsigned XDR together with an error
SignTransaction ==
    /\ pc = "signTx"
    /\ signerAsked' = signerAsked + 1
    /\ \E ok \in BOOLEAN :
         /\ txSigned' = ok
         /\ signerFailed' = ~ok
         /\ IF ok \/ IgnoresSignError(callVariant, op)
            THEN /\ pc' = "send"
                 /\ UNCHANGED result
            ELSE Fail(<<"signer error">>)
    /\ UNCHANGED <<inputVars, auth, i, accountSeq, freshSeq, sims, footprint, validUntil, sent,
                   pollVars, netVars, gameVars>>


(* ---------------------- submission and finality ----------------------- *)

SendStatuses == {"PENDING", "DUPLICATE", "TRY_AGAIN_LATER", "ERROR"}
\* what s.getTransaction(hash) can answer: a status, or an exception whose
\* message contains "not found", contains "NOT_FOUND", or neither
ThrownNotFoundLower == "throws: not found"
ThrownNotFoundUpper == "throws: NOT_FOUND"
ThrownOther == "throws: network error"
Thrown == {ThrownNotFoundLower, ThrownNotFoundUpper, ThrownOther}
GetTxAnswers == {"SUCCESS", "FAILED", "NOT_FOUND", "PENDING"} \cup Thrown

\* methods of the full and vite variants that go through assembleSignSend
UsesAssembleSignSend(v, o) ==
    v \in {"full", "vite"} /\ o \in {"submitScore", "endSession"}

\* the message importAndStartGame throws when finalResp is not SUCCESS
ImportFailure(v) ==
    IF v = "full" THEN "On-chain error" ELSE "Session initialization failed"

\* the attempt budget of the simple variant's loops
RetryLimit(o) ==
    CASE o = "startGame" -> START_GAME_RETRIES
      [] o = "submitScore" -> SUBMIT_SCORE_RETRIES
      [] o = "endSession" -> END_SESSION_RETRIES

\* what each method does with the answer of sendTransaction:
\* <<next pc, result>>
AfterSend(v, o, st) ==
    IF v = "simple" /\ o = "submitScore"
    THEN IF st # "PENDING" /\ st # "SUCCESS"
         THEN <<"done", Return(<<"false">>)>> ELSE <<"poll", <<>>>>
    ELSE IF v = "simple"
    THEN IF st = "ERROR"
         THEN <<"done", Throw(<<IF o = "startGame" THEN "Start game failed"
                                ELSE "End session failed", st>>)>>
         ELSE <<"poll", <<>>>>
    ELSE IF UsesAssembleSignSend(v, o)
    THEN IF st = "ERROR" THEN <<"done", Throw(<<"Submit error", st>>)>>
         ELSE IF st = "PENDING" THEN <<"poll", <<>>>>
         ELSE <<"done", Throw(<<"Transaction failed with status", st>>)>>
    ELSE IF st = "ERROR" THEN <<"done", Throw(<<"Tx Rejected">>)>>
         ELSE IF st = "PENDING" THEN <<"poll", <<>>>>
         ELSE <<"done", Throw(<<ImportFailure(v), st>>)>>

\* s.sendTransaction(signed envelope)
SendTransaction ==
    /\ pc = "send"
    /\ sent' = <<Envelope(ContractFn(op), args,
                          IF op = "importAndStartGame" THEN auth ELSE <<>>,
                          IF op = "importAndStartGame" THEN freshSeq ELSE accountSeq,
                          footprint, txSigned)>>
    /\ \E st \in SendStatuses :
         /\ status' = st
         /\ pc' = AfterSend(callVariant, op, st)[1]
         /\ result' = AfterSend(callVariant, op, st)[2]
    /\ UNCHANGED <<inputVars, auth, i, accountSeq, freshSeq, sims, footprint, validUntil,
                   signerAsked, signerFailed, txSigned, retries, polls, notFounds,
                   netVars, gameVars>>

\* One turn of a polling loop, from the getTransaction answer to the loop's
\* next test: <<next pc, result, status, retries>>
AfterPollSimple(o, ans, st, r) ==
    IF ans = "SUCCESS"
    THEN <<"done", Return(<<CASE o = "startGame" -> "void"
                              [] o = "submitScore" -> "true"
                              [] o = "endSession" -> "Match finalized!">>), ans, r>>
    ELSE IF ans = "FAILED" /\ o = "startGame"
    THEN <<"done", Throw(<<"Contract execution failed on-chain.">>), ans, r>>
    ELSE IF ans = "FAILED" /\ o = "submitScore"
    THEN <<"done", Return(<<"false">>), ans, r>>
    ELSE IF ans \in Thrown /\ ~(o = "startGame" /\ ans = ThrownNotFoundLower)
    THEN <<"done", Throw(<<ans>>), st, r>>
    ELSE LET st2 == IF ans \in Thrown THEN st ELSE ans IN
         IF r + 1 < RetryLimit(o)
         THEN <<"poll", <<>>, st2, r + 1>>
         ELSE <<"done",
                CASE o = "startGame" -> Throw(<<"Transaction timed out.">>)
                  [] o = "submitScore" -> Return(<<"false">>)
                  [] o = "endSession" -> Return(<<"Transaction pending...">>),
                st2, r + 1>>

\* assembleSignSend: while (resp.status === "PENDING") resp = getTransaction
AfterPollAssemble(ans, st, r) ==
    IF ans \in Thrown THEN <<"done", Throw(<<ans>>), st, r>>
    ELSE IF ans = "PENDING" THEN <<"poll", <<>>, ans, r>>
    ELSE IF ans = "SUCCESS" THEN <<"done", Return(<<"returnValue">>), ans, r>>
    ELSE <<"done", Throw(<<"Transaction failed with status", ans>>), ans, r>>

\* importAndStartGame: while PENDING, or NOT_FOUND with retries < 15
AfterPollImport(v, ans, st, r) ==
    IF ans \in Thrown /\ ans # ThrownNotFoundUpper
    THEN <<"done", Throw(<<ans>>), st, r>>
    ELSE LET st2 == IF ans = ThrownNotFoundUpper THEN "NOT_FOUND" ELSE ans
             r2 == IF st2 = "NOT_FOUND" THEN r + 1 ELSE r
         IN IF st2 = "PENDING" \/ (st2 = "NOT_FOUND" /\ r2 < IMPORT_NOT_FOUND_RETRIES)
            THEN <<"poll", <<>>, st2, r2>>
            ELSE IF st2 = "SUCCESS" THEN <<"done", Return(<<"void">>), st2, r2>>
            ELSE <<"done", Throw(<<ImportFailure(v), st2>>), st2, r2>>

AfterPoll(v, o, ans, st, r) ==
    IF v = "simple" THEN AfterPollSimple(o, ans, st, r)
    ELSE IF UsesAssembleSignSend(v, o) THEN AfterPollAssemble(ans, st, r)
    ELSE AfterPollImport(v, ans, st, r)

\* s.getTransaction(resp.hash) after the 2 s sleep
Poll(cap) ==
    /\ pc = "poll"
    /\ polls < cap
    /\ polls' = polls + 1
    /\ \E ans \in GetTxAnswers :
         LET nxt == AfterPoll(callVariant, op, ans, status, retries) IN
         /\ pc' = nxt[1]
         /\ result' = nxt[2]
         /\ status' = nxt[3]
         /\ retries' = nxt[4]
         /\ notFounds' = IF ans = "NOT_FOUND" /\ notFounds < NotFoundTracked
                         THEN notFounds + 1 ELSE notFounds
    /\ UNCHANGED <<inputVars, auth, i, accountSeq, freshSeq, sims, footprint, validUntil,
                   signerAsked, signerFailed, txSigned, sent, netVars, gameVars>>

\* the awaited method returned a value (it did not throw)
Returned == result # <<>> /\ result[1].kind = "return"

\* The caller has the outcome and the next call starts from fresh locals.
\* The callers' continuations: handleImport / handleQuickstart call
\* setActiveGame after importAndStartGame returned; handleFinalize calls
\* setFinalized(true) after endSession returned and, in its finally block,
\* setFinishing(false).
CallReturns ==
    /\ pc = "done"
    /\ callVariant' = "simple"
    /\ op' = ""
    /\ pc' = "idle"
    /\ args' = NoArgs
    /\ player1AuthXDR' = <<>>
    /\ parsed' = <<>>
    /\ auth' = <<>>
    /\ simAuth' = <<>>
    /\ i' = 0
    /\ accountSeq' = 0
    /\ freshSeq' = 0
    /\ sims' = 0
    /\ footprint' = 0
    /\ validUntil' = 0
    /\ signerAddr' = ""
    /\ signerAsked' = 0
    /\ signerFailed' = FALSE
    /\ txSigned' = FALSE
    /\ sent' = <<>>
    /\ status' = ""
    /\ retries' = 0
    /\ polls' = 0
    /\ notFounds' = 0
    /\ result' = <<>>
    /\ uiError' = ""
    /\ exportedXDR' = <<>>
    /\ activeGame' = (activeGame \/ (op = "importAndStartGame" /\ Returned))
    /\ finalized' = (finalized \/ (op = "endSession" /\ Returned))
    /\ finishing' = (finishing /\ op # "endSession")
    /\ UNCHANGED <<ledgerSeq, netSeq, gameCopy, phase, loopPhase, difficulty, rngSeed, cameraY,
                   cubeX, walls, lastSpawnY, scoreCall, trackVars>>

(* ----------------------------- network -------------------------------- *)

TtlLedgers == calculateValidUntilLedger(0, MULTI_SIG_AUTH_TTL_MINUTES)

\* a whole hand-off TTL passes between two calls, e.g. while the artifact
\* waits to be pasted
WaitTtl ==
    /\ pc = "idle"
    /\ ledgerSeq \div TtlLedgers < MaxTtlWaits
    /\ ledgerSeq' = ledgerSeq + TtlLedgers
    /\ UNCHANGED <<callVars, netSeq, gameVars>>

\* another transaction of the submitting account is applied while a call is
\* being assembled or nothing runs (a polling loop reads no sequence number)
SequenceConsumed ==
    /\ pc \notin {"poll", "done"}
    /\ netSeq < MaxSeq
    /\ netSeq' = netSeq + 1
    /\ UNCHANGED <<callVars, ledgerSeq, gameVars>>

(* -------------------------- specification ----------------------------- *)

Next ==
    \/ \E v \in {"full", "vite"}, typed \in TypedPoints : handlePrepare(v, typed)
    \/ \E v \in {"full", "vite"}, x \in Importable, typed \in TypedPoints :
         handleImport(v, x, typed)
    \/ \E sid \in SessionIds, s1 \in 1..MaxStake, s2 \in 1..MaxStake :
         startGame(StartGameArgs(sid, Alice, Bob, s1, s2))
    \/ \E v \in Variants, sid \in SessionIds, player \in {Alice, Bob} :
         submitScore(v, sid, player)
    \/ \E v \in Variants, sid \in SessionIds, runner \in {Alice, Bob} :
         endSession(v, sid, runner)
    \/ \E v \in Variants, x \in Importable : callParseAuthEntry(v, x)
    \/ GetAccount
    \/ Simulate(CredLists(args))
    \/ LatestLedger
    \/ SignAuth
    \/ AuthLoop
    \/ FreshAccount
    \/ FinalSimulate
    \/ SignTransaction
    \/ SendTransaction
    \/ Poll(HandoffPolls)
    \/ CallReturns
    \/ WaitTtl
    \/ SequenceConsumed

\* the hand-off and the assembly of every call, over all inputs
Spec == Init /\ [][Next]_vars

\* The hand-off alone: Alice prepares, the artifact waits, Bob imports.
HandoffNext ==
    \/ \E v \in {"full", "vite"}, typed \in TypedPoints : handlePrepare(v, typed)
    \/ \E v \in {"full", "vite"}, x \in Importable, typed \in TypedPoints :
         handleImport(v, x, typed)
    \/ GetAccount
    \/ Simulate(CredLists(args))
    \/ LatestLedger
    \/ SignAuth
    \/ AuthLoop
    \/ FreshAccount
    \/ FinalSimulate
    \/ SignTransaction
    \/ SendTransaction
    \/ Poll(ShortPolls)
    \/ CallReturns
    \/ WaitTtl

HandoffSpec == Init /\ [][HandoffNext]_vars

\* The polling loops run to the end of their budgets, each method of each
\* variant being called with one fixed input and a dry-run that names both
\* players.
PollNext ==
    \/ \E sid \in SessionIds : startGame(StartGameArgs(sid, Alice, Bob, 1, 1))
    \/ \E v \in Variants, sid \in SessionIds : submitScore(v, sid, Alice)
    \/ \E v \in Variants, sid \in SessionIds : endSession(v, sid, Alice)
    \/ \E v \in {"full", "vite"}, sid \in SessionIds :
         handleImport(v, XdrArtifact(PreparedEntry(sid, Bob, 1)),
                      [stray |-> FALSE, amount |-> 1])
    \/ GetAccount
    \/ Simulate({<<<<AddressCred, args[2]>>, <<AddressCred, args[3]>>>>, <<>>})
    \/ LatestLedger
    \/ AuthLoop
    \/ FreshAccount
    \/ FinalSimulate
    \/ SignTransaction
    \/ SendTransaction
    \/ Poll(PollCap)
    \/ CallReturns

PollSpec == Init /\ [][PollNext]_vars

(* ------------------------- the endless-run game ------------------------ *)
(* The two copies of the game component in part_003: copy "A" (lines       *)
(* 50-491) has the isOnChain prop and the Finalize button, copy "B" (lines *)
(* 556-1245) has neither. The connected wallet (userAddress) is Alice's.   *)
(* The frames between two walls are taken as one step of gameLoop.         *)

GameCopies == {"A", "B"}
Difficulties == {"easy", "normal", "hard"}

\* values Math.floor(Math.random() * 2147483647) can take, the session id
\* among them
RandomSeeds == {gameSessionId, 2147483646}

\* where steering can have put the cube when a frame is drawn: a grid of
\* four cube widths, one step beyond the road on either side, and for each
\* wall the position just inside its gap
CubeXs(ws) ==
    {4 * k * CUBE_W : k \in -1..((ROAD_W \div (4 * CUBE_W)) + 1)}
        \cup {ws[k].size * CUBE_W + 1 : k \in {n \in 1..Len(ws) : ws[n].gapX = 0}}

Max(a, b) == IF a >= b THEN a ELSE b
Min(a, b) == IF a <= b THEN a ELSE b
Abs(n) == IF n < 0 THEN -n ELSE n

\* a ^ b on 32-bit integers, for b >= 0: bit by bit for a >= 0, and through
\* ~x = -x - 1 for a < 0
RECURSIVE BitXor(_, _)
BitXor(a, b) ==
    IF a = 0 THEN b
    ELSE IF b = 0 THEN a
    ELSE 2 * BitXor(a \div 2, b \div 2) + (((a % 2) + (b % 2)) % 2)
XorInt32(a, b) == IF a >= 0 THEN BitXor(a, b) ELSE -BitXor(-a - 1, b) - 1

\* Math.floor(y * 1.3) for a wall position y <= 0
FloorTimes13(y) == -((13 * (-y) + 9) \div 10)

\* const rng = Math.abs(Math.floor(newY * 1.3) ^ s.rngSeed)
WallRng(y, seed) == Abs(XorInt32(FloorTimes13(y), seed))

\* per-difficulty gap and spacing of the loop, and of copy B's startGame
spawnGap(d) == IF d = "easy" THEN 180 ELSE IF d = "hard" THEN 130 ELSE 150
spawnDist(d) == IF d = "easy" THEN 550 ELSE IF d = "hard" THEN 700 ELSE 620
gapWidth(d) == IF d = "easy" THEN 200 ELSE IF d = "hard" THEN 280 ELSE 220
spawnSpacing(d) == IF d = "easy" THEN 550 ELSE IF d = "hard" THEN 750 ELSE 620

\* the two blocks pushed for one wall: left of the gap and right of it
WallPair(y, gapCenter, gap) ==
    LET rightStart == gapCenter + gap \div 2 IN
    <<[worldY |-> y, gapX |-> 0,
       size |-> Max(1, (gapCenter - gap \div 2) \div CUBE_W)],
      [worldY |-> y, gapX |-> rightStart,
       size |-> Max(1, (ROAD_W - rightStart) \div CUBE_W)]>>

\* gapCenter of a wall spawned by the loop, before clamping: copy A always
\* takes the standard draw, copy B rotates four patterns
LoopGapCenter(copy, newY, seed, d) ==
    LET wallIdx == Abs(newY) \div spawnDist(d)
        pattern == IF copy = "A" THEN 0 ELSE wallIdx % 4
        r == WallRng(newY, seed)
    IN IF pattern = 1
       THEN IF wallIdx % 2 = 0 THEN 140 + (r % (ROAD_W \div 4))
            ELSE ROAD_W - 140 - (r % (ROAD_W \div 4))
       ELSE IF pattern = 2 THEN ROAD_W \div 2 + ((r % 90) - 45)
       ELSE IF pattern = 3 THEN 200 + (r % (ROAD_W - 400))
       ELSE 150 + (r % (ROAD_W - 300))

FinishClearZone(copy) == IF copy = "A" THEN FINISH_CLEAR_ZONE ELSE FINISH_CLEAR_ZONE_B

\* the spawn loop of gameLoop: <<walls, lastSpawnY>> when it exits
RECURSIVE SpawnLoop(_, _, _, _, _, _)
SpawnLoop(copy, ws, last, cam, seed, d) ==
    IF ~(last > -cam - 3000 /\ last > -TrackLength + 800) THEN <<ws, last>>
    ELSE LET newY == last - spawnDist(d) IN
         IF -newY >= TrackLength - FinishClearZone(copy)
         THEN SpawnLoop(copy, ws, newY, cam, seed, d)
         ELSE LET gapCenter ==
                      Max(spawnGap(d) \div 2 + 30,
                          Min(ROAD_W - spawnGap(d) \div 2 - 30,
                              LoopGapCenter(copy, newY, seed, d)))
              IN SpawnLoop(copy, ws \o WallPair(newY, gapCenter, spawnGap(d)),
                           newY, cam, seed, d)

\* copy B startGame: the initial walls sequence, <<walls, lastSpawnY>>
RECURSIVE InitialSequence(_, _, _, _)
InitialSequence(n, seed, d, acc) ==
    IF n >= InitialWalls THEN acc
    ELSE LET y == -(800 + n * spawnSpacing(d))
             gapCenter == 200 + (WallRng(y, seed) % (ROAD_W - 400))
         IN InitialSequence(n + 1, seed, d,
                            <<acc[1] \o WallPair(y, gapCenter, gapWidth(d)), y>>)

\* every wall a run with this seed and difficulty ever holds
Course(copy, seed, d) ==
    LET start == IF copy = "A" THEN <<<<>>, 0>>
                 ELSE InitialSequence(0, seed, d, <<<<>>, 0>>)
    IN SpawnLoop(copy, start[1], start[2], TrackLength, seed, d)[1]

\* the wall positions ahead of the camera, and where the camera is when the
\* next frame worth looking at is drawn: at the next wall, else at the finish
WallsAhead(ws, cam) == {-ws[k].worldY : k \in 1..Len(ws)} \ (0..cam)
NextStop(ws, cam) ==
    IF WallsAhead(ws, cam) = {} THEN TrackLength
    ELSE Min(TrackLength,
             CHOOSE z \in WallsAhead(ws, cam) : \A y \in WallsAhead(ws, cam) : z <= y)

\* the collision check of gameLoop
Hit(ws, cam, x) ==
    \E k \in 1..Len(ws) :
        LET dist == -ws[k].worldY - cam
            bL == ws[k].gapX
            bR == ws[k].gapX + ws[k].size * CUBE_W
        IN /\ ~(dist < -50 \/ dist > 20)
           /\ ~(x + CUBE_W < bL \/ x > bR)

\* copy B's cleanup: one passed block is dropped per frame
Cleanup(copy, ws, cam) ==
    IF copy = "B" /\ ws # <<>> /\ ws[1].worldY > -cam + 500 THEN Tail(ws) ELSE ws

\* the service call is not part of the step
CallIdle == UNCHANGED <<callVars, ledgerSeq, netSeq, trackVars>>

\* prepareGame: START on the idle screen, RETRY after a crash, RETRY after a
\* finalized finish (copy A) or after any finish (copy B)
prepareGame ==
    /\ \/ phase \in {"idle", "dead"}
       \/ phase = "done" /\ (gameCopy = "B" \/ finalized)
       \/ loopPhase \in {"idle", "dead"}
    /\ phase' = "picking"
    /\ loopPhase' = "picking"
    /\ UNCHANGED <<gameCopy, activeGame, difficulty, rngSeed, cameraY, cubeX, walls,
                   lastSpawnY, finishing, finalized, scoreCall>>
    /\ CallIdle

\* startGame(selectedDifficulty) of the component; seed is what Math.random
\* gave
GameStartGame(d, seed) ==
    /\ phase = "picking"
    /\ phase' = "countdown"
    /\ loopPhase' = "countdown"
    /\ difficulty' = d
    /\ cameraY' = 0
    /\ cubeX' = (ROAD_W - CUBE_W) \div 2
    /\ rngSeed' = seed
    /\ IF gameCopy = "A"
       THEN walls' = <<>> /\ lastSpawnY' = 0
       ELSE /\ walls' = InitialSequence(0, seed, d, <<<<>>, 0>>)[1]
            /\ lastSpawnY' = InitialSequence(0, seed, d, <<<<>>, 0>>)[2]
    /\ UNCHANGED <<gameCopy, activeGame, finishing, finalized, scoreCall>>
    /\ CallIdle

\* gameLoop in 'countdown' once 3500 ms have passed
Countdown ==
    /\ loopPhase = "countdown"
    /\ phase' = "playing"
    /\ loopPhase' = "playing"
    /\ UNCHANGED <<gameCopy, activeGame, difficulty, rngSeed, cameraY, cubeX, walls,
                   lastSpawnY, finishing, finalized, scoreCall>>
    /\ CallIdle

\* submitFinalScore(s.levelTime), not awaited by gameLoop: copy A returns
\* at once without an on-chain session; otherwise submitScore starts and
\* runs to its first await
submitFinalScore(after) ==
    IF gameCopy = "A" /\ ~activeGame THEN UNCHANGED scoreCall
    ELSE scoreCall' = [pc |-> "getAccount", seq |-> 0, after |-> after]

\* gameLoop in 'playing', the cube being at x when the frame is computed.
\* One background submitScore is followed at a time: a run ends only when
\* the previous one's call has returned.
gameLoop(x) ==
    /\ loopPhase = "playing"
    /\ cubeX' = x
    /\ LET stop == NextStop(SpawnLoop(gameCopy, walls, lastSpawnY, cameraY,
                                      rngSeed, difficulty)[1], cameraY)
           spawned == SpawnLoop(gameCopy, walls, lastSpawnY, stop, rngSeed, difficulty)
           kept == Cleanup(gameCopy, spawned[1], stop)
       IN IF x < 0 \/ x > ROAD_W - CUBE_W
          THEN /\ phase' = "dead"
               /\ loopPhase' = "dead"
               /\ scoreCall.pc = "none"
               /\ IF gameCopy = "B" THEN submitFinalScore("dead")
                  ELSE UNCHANGED scoreCall
               /\ UNCHANGED <<cameraY, walls, lastSpawnY>>
          ELSE IF stop >= TrackLength
          THEN /\ cameraY' = TrackLength
               /\ phase' = "done"
               /\ loopPhase' = "done"
               /\ scoreCall.pc = "none"
               /\ submitFinalScore("done")
               /\ UNCHANGED <<walls, lastSpawnY>>
          ELSE /\ cameraY' = stop
               /\ walls' = kept
               /\ lastSpawnY' = spawned[2]
               /\ IF Hit(kept, stop, x)
                  THEN /\ phase' = "dead"
                       /\ loopPhase' = "dead"
                       /\ scoreCall.pc = "none"
                       /\ IF gameCopy = "B" THEN submitFinalScore("dead")
                          ELSE UNCHANGED scoreCall
                  ELSE UNCHANGED <<phase, loopPhase, scoreCall>>
    /\ UNCHANGED <<gameCopy, activeGame, difficulty, rngSeed, finishing, finalized>>
    /\ CallIdle

\* the MENU buttons of the 'dead' and 'done' overlays and copy B's BACK
\* button of the difficulty picker. Copy B's Main Menu buttons also set
\* g.current.phase; copy A's MENU buttons and BACK call only setPhase('idle').
Menu ==
    /\ \/ phase \in {"dead", "done"}
       \/ phase = "picking" /\ gameCopy = "B"
    /\ phase' = "idle"
    /\ loopPhase' = IF gameCopy = "B" /\ phase \in {"dead", "done"} THEN "idle"
                    ELSE loopPhase
    /\ UNCHANGED <<gameCopy, activeGame, difficulty, rngSeed, cameraY, cubeX, walls,
                   lastSpawnY, finishing, finalized, scoreCall>>
    /\ CallIdle

\* copy A handleFinalize, from the FINALIZE button of the 'done' screen
\* (shown while !finalized, disabled while finishing) to its first await
\* inside endSession
handleFinalize ==
    /\ gameCopy = "A"
    /\ phase = "done"
    /\ ~finalized
    /\ ~finishing
    /\ pc = "idle"
    /\ IF ~activeGame
       THEN /\ phase' = "idle"
            /\ UNCHANGED <<finishing, callVars, ledgerSeq, netSeq>>
       ELSE /\ finishing' = TRUE
            /\ BeginCall("simple", "endSession", <<gameSessionId, Alice, "", 0, 0>>,
                         Alice, <<>>, <<>>)
            /\ UNCHANGED phase
    /\ UNCHANGED <<gameCopy, activeGame, loopPhase, difficulty, rngSeed, cameraY, cubeX,
                   walls, lastSpawnY, finalized, scoreCall, trackVars>>

\* the background submitScore (simple variant): s.getAccount(player)
ScoreGetAccount ==
    /\ scoreCall.pc = "getAccount"
    /\ scoreCall' = [scoreCall EXCEPT !.pc = "signTx", !.seq = netSeq]
    /\ UNCHANGED <<gameCopy, activeGame, phase, loopPhase,
                   difficulty, rngSeed, cameraY, cubeX,
                   walls, lastSpawnY, finishing, finalized>>
    /\ CallIdle

\* ... its dry-run, signature and sendTransaction
ScoreSend ==
    /\ scoreCall.pc = "signTx"
    /\ scoreCall' = [scoreCall EXCEPT !.pc = "poll"]
    /\ UNCHANGED <<gameCopy, activeGame, phase, loopPhase,
                   difficulty, rngSeed, cameraY, cubeX,
                   walls, lastSpawnY, finishing, finalized>>
    /\ CallIdle

\* ... and its polling loop ends: the ledger applied the transaction, which
\* consumes the account's sequence number, or it did not
ScoreSettled ==
    /\ scoreCall.pc = "poll"
    /\ scoreCall' = NoCall
    /\ \E applied \in BOOLEAN :
         IF applied /\ scoreCall.seq = netSeq /\ netSeq < MaxSeq
         THEN netSeq' = netSeq + 1
         ELSE UNCHANGED netSeq
    /\ UNCHANGED <<gameCopy, activeGame, phase, loopPhase,
                   difficulty, rngSeed, cameraY, cubeX,
                   walls, lastSpawnY, finishing, finalized, trackVars>>
    /\ UNCHANGED <<callVars, ledgerSeq>>

\* the component is mounted, either copy, with or without an on-chain session
GameInit ==
    /\ callVariant = "simple"
    /\ args = NoArgs
    /\ InitLocals
    /\ gameCopy \in GameCopies
    /\ activeGame \in BOOLEAN
    /\ GameMounted
    /\ LevelGameMounted

GameNext ==
    \/ prepareGame
    \/ \E d \in Difficulties, seed \in RandomSeeds : GameStartGame(d, seed)
    \/ Countdown
    \/ \E x \in CubeXs(Course(gameCopy, rngSeed, difficulty)) : gameLoop(x)
    \/ Menu
    \/ handleFinalize
    \/ ScoreGetAccount
    \/ ScoreSend
    \/ ScoreSettled
    \/ GetAccount
    \/ Simulate({<<>>})
    \/ SignTransaction
    \/ SendTransaction
    \/ Poll(ShortPolls)
    \/ CallReturns

GameSpec == GameInit /\ [][GameNext]_vars

(* --------------------------- the level game --------------------------- *)

\* what savedLevel() can return: parseInt of whatever local storage holds
SavedLevels == 0..4

\* session ids (u32), as <<high, low>> words
TrackSeeds ==
    LET words == UNION {{k, 32768 - k, 32768 + k, 65535 - k} : k \in 0..SeedSpread}
                     \cup {gameSessionId, 42}
    IN words \X words

\* let s = seed ^ (level * 0xdeadbeef): the operands of ^ are taken mod 2^32
InitialState(level, seed) ==
    LET k == <<(LEVEL_K[1] * level + (LEVEL_K[2] * level) \div WORD) % WORD,
               (LEVEL_K[2] * level) % WORD>>
    IN <<BitXor(seed[1], k[1]), BitXor(seed[2], k[2])>>

\* s = ((s >>> 0) * 1664525 + 1013904223) >>> 0
LcgNext(w) ==
    LET low == w[2] * LCG_A[2] + LCG_C[2]
    IN <<(((w[1] * LCG_A[2]) % WORD) + w[2] * LCG_A[1] + low \div WORD + LCG_C[1]) % WORD,
         low % WORD>>

\* Math.floor((s / 4294967296) * n) for a small n
FloorScaled(w, n) == (w[1] * n + (w[2] * n) \div WORD) \div WORD

\* a gap placed without leaving room for its own width
GapXNoWidth(w) ==
    LET maxGapLeft == LEVEL_ROAD_W - WALL_GAP_PADDING
    IN WALL_GAP_PADDING + FloorScaled(w, maxGapLeft - WALL_GAP_PADDING)

\* const gapX = WALL_GAP_PADDING + Math.floor(rng() * (maxGapLeft - WALL_GAP_PADDING))
GapX(w) ==
    LET maxGapLeft == LEVEL_ROAD_W - GAP_W - WALL_GAP_PADDING
    IN WALL_GAP_PADDING + FloorScaled(w, maxGapLeft - WALL_GAP_PADDING)

\* the for loop of generateTrack from index k, the generator being in state w
RECURSIVE TrackWalls(_, _, _, _, _)
TrackWalls(k, count, spacing, w, acc) ==
    IF k >= count THEN acc
    ELSE TrackWalls(k + 1, count, spacing, LcgNext(w),
                    Append(acc, [worldY |-> -(400 + k * spacing),
                                 gapX |-> GapX(LcgNext(w))]))

\* a generator whose wall count is taken from the seed as well
generateTrackSeedCount(level, seed) ==
    IF level \in 1..Len(WALLS_PER_LEVEL)
    THEN [walls |-> TrackWalls(0, WALLS_PER_LEVEL[level] - (seed[2] % 2),
                               TRACK_SPACING[level], InitialState(level, seed), <<>>),
          trackLength |-> <<400 + WALLS_PER_LEVEL[level] * TRACK_SPACING[level] + 200>>]
    ELSE [walls |-> <<>>, trackLength |-> <<"NaN">>]

\* generateTrack(level, seed). A level outside 1..3 indexes past the tables:
\* count and spacing are undefined, `i < undefined` is false and the
\* arithmetic on undefined gives NaN
generateTrack(level, seed) ==
    IF level \in 1..Len(WALLS_PER_LEVEL)
    THEN [walls |-> TrackWalls(0, WALLS_PER_LEVEL[level], TRACK_SPACING[level],
                               InitialState(level, seed), <<>>),
          trackLength |-> <<400 + WALLS_PER_LEVEL[level] * TRACK_SPACING[level] + 200>>]
    ELSE [walls |-> <<>>, trackLength |-> <<"NaN">>]

\* gameLoop, 'playing': a wall at distance D is tested in the frames whose
\* cameraY lies in [D - CUBE_H - 4, D + 4]; cameraY grows by BASE_SPEEDS per
\* frame and the cube moves at most once per frame. The most frames there can
\* be from the last test of one wall to the first test of the next.
FramesBetweenWalls(level) ==
    ((TRACK_SPACING[level] - (LEVEL_CUBE_H + 4 + 4)) * 10) \div BASE_SPEEDS[level] + 2

\* startGame / startCurrentLevel(lvl): generateTrack(lvl, sessionId); nothing
\* in between looks at lvl
startCurrentLevel ==
    /\ track = <<>>
    /\ track' = Return(generateTrack(trackLevel, trackSeed))
    /\ UNCHANGED <<trackLevel, trackSeed, walletVars, appVars, levelVars>>
    /\ UNCHANGED <<callVars, ledgerSeq, netSeq, gameCopy, activeGame, phase, loopPhase,
                   difficulty,
                   rngSeed, cameraY, cubeX, walls, lastSpawnY, finishing, finalized,
                   scoreCall>>

\* the level game is mounted with some stored level and some session id
TrackInit ==
    /\ callVariant = "simple"
    /\ args = NoArgs
    /\ InitLocals
    /\ gameCopy = "A"
    /\ activeGame = FALSE
    /\ GameMounted
    /\ trackLevel \in SavedLevels
    /\ trackSeed \in TrackSeeds
    /\ track = <<>>
    /\ ShellMounted

TrackNext == startCurrentLevel

TrackSpec == TrackInit /\ [][TrackNext]_vars

(* ------------------ the level game: levels and times ------------------ *)

\* savedLevel(): parseInt(localStorage.getItem(...) || '1')
savedLevel == IF storedLevel = <<>> THEN 1 ELSE storedLevel[1]

\* the rest of the front end does not take part in a step of the level game
LevelFrame ==
    UNCHANGED <<callVars, ledgerSeq, netSeq, gameCopy, activeGame, phase, loopPhase,
                   difficulty,
                rngSeed, cameraY, cubeX, walls, lastSpawnY, finishing, finalized,
                scoreCall, trackLevel, trackSeed, track, walletVars, appVars>>

\* startGame: the START button and the space key in 'idle', PLAY AGAIN in 'done'
levelStartGame ==
    /\ levelPhase \in {"idle", "done"}
    /\ sLevel' = savedLevel
    /\ totalTimeMs' = 0
    /\ levelRecords' = <<>>
    /\ levelPhase' = "countdown"
    /\ UNCHANGED storedLevel
    /\ LevelFrame

\* gameLoop: the countdown ('countdown') or the level banner ('levelup') is over
levelBegins ==
    /\ levelPhase \in {"countdown", "levelup"}
    /\ levelPhase' = "playing"
    /\ UNCHANGED <<sLevel, storedLevel, totalTimeMs, levelRecords>>
    /\ LevelFrame

\* a crash that also forgets the saved level
levelCrashForgets ==
    /\ levelPhase = "playing"
    /\ sLevel \in 1..Len(WALLS_PER_LEVEL)
    /\ levelPhase' = "dead"
    /\ storedLevel' = <<>>
    /\ UNCHANGED <<sLevel, totalTimeMs, levelRecords>>
    /\ LevelFrame

\* gameLoop, 'playing': the cube is not in the gap of a wall under test
\* (only levels 1..3 have walls)
levelCrash ==
    /\ levelPhase = "playing"
    /\ sLevel \in 1..Len(WALLS_PER_LEVEL)
    /\ levelPhase' = "dead"
    /\ UNCHANGED <<sLevel, storedLevel, totalTimeMs, levelRecords>>
    /\ LevelFrame

\* gameLoop, 'playing': cameraY >= trackLength after levelTime = t ms (for a
\* level outside 1..3 trackLength is NaN and the test is never true)
levelComplete(t) ==
    /\ levelPhase = "playing"
    /\ sLevel \in 1..Len(WALLS_PER_LEVEL)
    /\ totalTimeMs' = totalTimeMs + t
    /\ levelRecords' = Append(levelRecords, [level |-> sLevel, timeMs |-> t])
    /\ IF sLevel < 3
       THEN /\ sLevel' = sLevel + 1
            /\ storedLevel' = <<sLevel + 1>>
            /\ levelPhase' = "levelup"
       ELSE /\ storedLevel' = <<>>
            /\ levelPhase' = "done"
            /\ UNCHANGED sLevel
    /\ LevelFrame

\* retryLevel: the RETRY button and the space key in 'dead'
retryLevel ==
    /\ levelPhase = "dead"
    /\ totalTimeMs' = 0
    /\ levelRecords' = <<>>
    /\ levelPhase' = "countdown"
    /\ UNCHANGED <<sLevel, storedLevel>>
    /\ LevelFrame

\* onBack and a later return to the game: the component is mounted anew,
\* local storage is what it was
levelRemount ==
    /\ levelPhase' = "idle"
    /\ sLevel' = savedLevel
    /\ totalTimeMs' = 0
    /\ levelRecords' = <<>>
    /\ UNCHANGED storedLevel
    /\ LevelFrame

\* the level game is mounted, local storage holding nothing or some level
LevelInit ==
    /\ callVariant = "simple"
    /\ args = NoArgs
    /\ InitLocals
    /\ gameCopy = "A"
    /\ activeGame = FALSE
    /\ GameMounted
    /\ trackLevel = 1
    /\ trackSeed = <<0, gameSessionId>>
    /\ track = <<>>
    /\ devCurrentPlayer = 0
    /\ devKeypairs = {}
    /\ walletStore = WalletInitialState
    /\ microtasks = <<>>
    /\ quickPc = "none"
    /\ appSessionId = gameSessionId
    /\ appActiveGame = <<>>
    /\ gameActive = TRUE
    /\ exportedSession = <<>>
    /\ storedLevel \in {<<>>} \cup {<<n>> : n \in SavedLevels}
    /\ levelPhase = "idle"
    /\ sLevel = savedLevel
    /\ totalTimeMs = 0
    /\ levelRecords = <<>>

LevelNext ==
    \/ levelStartGame
    \/ levelBegins
    \/ levelCrash
    \/ \E t \in 1..MaxLevelTime : levelComplete(t)
    \/ retryLevel
    \/ levelRemount

LevelSpec == LevelInit /\ [][LevelNext]_vars

(* -------------------- the dev wallet and the App shell ----------------- *)

\* the microtask queue is followed up to this many waiting continuations
MaxPending == 3

PlayerNumbers == {1, 2}

\* kp.publicKey() of the keypair of a dev player
PlayerKey(n) == IF n = 1 THEN Alice ELSE Bob

\* createSessionId() draws one of these; the Load form is given one of those
CreatedSessionIds == {gameSessionId, 11}
LoadedSessionIds == {5, 11}

\* the games and the contract calls do not take part in a step of the shell
ShellFrame ==
    UNCHANGED <<callVars, ledgerSeq, netSeq, gameCopy, activeGame, phase, loopPhase,
                difficulty, rngSeed, cameraY, cubeX, walls, lastSpawnY, finishing,
                finalized, scoreCall, trackLevel, trackSeed, track, levelVars>>

\* the setters of the wallet store
setConnecting(s, connecting) == [s EXCEPT !.isConnecting = connecting, !.error = ""]

setError(s, e) == [s EXCEPT !.error = e, !.isConnecting = FALSE]

setWallet(s, key, player) ==
    [s EXCEPT !.publicKey = key, !.walletType = "dev", !.isConnected = TRUE,
              !.isConnecting = FALSE, !.currentPlayer = player, !.error = ""]

\* getPublicKey and getSigner answer for the service's current player, and
\* throw when there is none
DevKeyAvailable == devCurrentPlayer # 0 /\ devCurrentPlayer \in devKeypairs

getPublicKey == PlayerKey(devCurrentPlayer)

\* the key the signer of getContractSigner signs with, "" when it throws
getContractSigner ==
    IF ~walletStore.isConnected \/ walletStore.publicKey = "" THEN ""
    ELSE IF walletStore.walletType = "dev" /\ DevKeyAvailable THEN getPublicKey
    ELSE ""

\* nothing is waiting behind an await and no Quickstart is running
Quiescent == microtasks = <<>> /\ quickPc = "none"

\* connectDev up to its await: the store setters, then initPlayer, which
\* runs to its end before the caller is suspended
connectDev(playerNumber) ==
    /\ walletStore' = setError(setConnecting(walletStore, TRUE), "")
    /\ devKeypairs' = devKeypairs \cup {playerNumber}
    /\ devCurrentPlayer' = playerNumber
    /\ microtasks' = Append(microtasks, <<"connectDev", playerNumber>>)
    /\ UNCHANGED <<quickPc, appVars>>
    /\ ShellFrame

\* the hook's switchPlayer up to its await: the service's switchPlayer has
\* run initPlayer and waits for it, the hook waits for the service
switchPlayer(playerNumber) ==
    /\ walletStore' = setError(setConnecting(walletStore, TRUE), "")
    /\ devKeypairs' = devKeypairs \cup {playerNumber}
    /\ devCurrentPlayer' = playerNumber
    /\ microtasks' = Append(microtasks, <<"switchInner", playerNumber>>)
    /\ UNCHANGED <<quickPc, appVars>>
    /\ ShellFrame

\* the service's switchPlayer returns: the hook's continuation is queued
switchPlayerInner ==
    /\ microtasks # <<>>
    /\ Head(microtasks)[1] = "switchInner"
    /\ microtasks' = Append(Tail(microtasks), <<"switchPlayer", Head(microtasks)[2]>>)
    /\ UNCHANGED <<devCurrentPlayer, devKeypairs, walletStore, quickPc, appVars>>
    /\ ShellFrame

\* connectDev or the hook's switchPlayer after its await: getPublicKey of
\* whoever is the service's player now, setWallet with the caller's own
\* playerNumber, then the finally block; called by Quickstart, connectDev
\* lets it go on, or fail, one step later
resumeConnect ==
    /\ microtasks # <<>>
    /\ Head(microtasks)[1] \in {"connectDev", "switchPlayer", "quickConnect"}
    /\ walletStore' =
           IF DevKeyAvailable
           THEN setConnecting(setWallet(walletStore, getPublicKey, Head(microtasks)[2]), FALSE)
           ELSE setConnecting(setError(walletStore, "No player initialized"), FALSE)
    /\ microtasks' = IF Head(microtasks)[1] = "quickConnect" /\ DevKeyAvailable
                     THEN Append(Tail(microtasks), <<"quickDone", 0>>)
                     ELSE Tail(microtasks)
    /\ quickPc' = IF Head(microtasks)[1] = "quickConnect" /\ ~DevKeyAvailable
                  THEN "none" ELSE quickPc
    /\ UNCHANGED <<devCurrentPlayer, devKeypairs, appVars>>
    /\ ShellFrame

\* disconnect: the service forgets its player and keys, the store is reset
disconnect ==
    /\ microtasks = <<>>
    /\ devCurrentPlayer' = IF walletStore.walletType = "dev" THEN 0 ELSE devCurrentPlayer
    /\ devKeypairs' = IF walletStore.walletType = "dev" THEN {} ELSE devKeypairs
    /\ walletStore' = WalletInitialState
    /\ UNCHANGED <<microtasks, quickPc, appVars>>
    /\ ShellFrame

\* the Quickstart button, enabled with a dev wallet connected and nothing
\* loading: a fresh session id, then initPlayer(1) and the first await
handleQuickstart ==
    /\ Quiescent
    /\ ~gameActive
    /\ walletStore.walletType = "dev"
    /\ \E fresh \in CreatedSessionIds : appSessionId' = fresh
    /\ devKeypairs' = devKeypairs \cup {1}
    /\ devCurrentPlayer' = 1
    /\ microtasks' = Append(microtasks, <<"quick1", 0>>)
    /\ quickPc' = "init"
    /\ UNCHANGED <<walletStore, appActiveGame, gameActive, exportedSession>>
    /\ ShellFrame

\* Quickstart takes player 1's address and signer and runs initPlayer(2)
quickstartSecondPlayer ==
    /\ microtasks # <<>>
    /\ Head(microtasks)[1] = "quick1"
    /\ IF DevKeyAvailable
       THEN /\ devKeypairs' = devKeypairs \cup {2}
            /\ devCurrentPlayer' = 2
            /\ microtasks' = Append(Tail(microtasks), <<"quick2", 0>>)
            /\ quickPc' = quickPc
       ELSE /\ microtasks' = Tail(microtasks)
            /\ quickPc' = "none"
            /\ UNCHANGED <<devKeypairs, devCurrentPlayer>>
    /\ UNCHANGED <<walletStore, appVars>>
    /\ ShellFrame

\* Quickstart takes player 2's address and signer and goes to the network:
\* funding, prepareStartGame and importAndStartGame
quickstartGoesOnline ==
    /\ microtasks # <<>>
    /\ Head(microtasks)[1] = "quick2"
    /\ microtasks' = Tail(microtasks)
    /\ quickPc' = IF DevKeyAvailable THEN "network" ELSE "none"
    /\ UNCHANGED <<devCurrentPlayer, devKeypairs, walletStore, appVars>>
    /\ ShellFrame

\* the network calls of Quickstart are over: on success connectDev(1) is
\* called and awaited, on failure the catch block only reports the error
quickstartSettles(ok) ==
    /\ quickPc = "network"
    /\ microtasks = <<>>
    /\ IF ok
       THEN /\ walletStore' = setError(setConnecting(walletStore, TRUE), "")
            /\ devKeypairs' = devKeypairs \cup {1}
            /\ devCurrentPlayer' = 1
            /\ microtasks' = Append(microtasks, <<"quickConnect", 1>>)
            /\ quickPc' = "connecting"
       ELSE /\ quickPc' = "none"
            /\ UNCHANGED <<walletStore, devKeypairs, devCurrentPlayer, microtasks>>
    /\ UNCHANGED appVars
    /\ ShellFrame

\* the end of a successful Quickstart: setActiveGame and setGameActive(true)
quickstartDone ==
    /\ microtasks # <<>>
    /\ Head(microtasks)[1] = "quickDone"
    /\ microtasks' = Tail(microtasks)
    /\ quickPc' = "none"
    /\ appActiveGame' = <<appSessionId>>
    /\ gameActive' = TRUE
    /\ UNCHANGED <<devCurrentPlayer, devKeypairs, walletStore, appSessionId,
                   exportedSession>>
    /\ ShellFrame

\* App's handlePrepare, from the button of the create form shown while
\* nothing is exported: a fresh session id in any case, the export when the
\* wallet is connected, a signer is there and the service succeeds
appHandlePrepare(ok) ==
    /\ Quiescent
    /\ ~gameActive
    /\ exportedSession = <<>>
    /\ walletStore.isConnected
    /\ \E fresh \in CreatedSessionIds :
          /\ appSessionId' = fresh
          /\ exportedSession' = IF ok /\ getContractSigner # "" THEN <<fresh>>
                                ELSE exportedSession
    /\ UNCHANGED <<walletVars, appActiveGame, gameActive>>
    /\ ShellFrame

\* the mode buttons and Discard: setExportedXDR(null)
discardExport ==
    /\ Quiescent
    /\ ~gameActive
    /\ exportedSession # <<>>
    /\ exportedSession' = <<>>
    /\ UNCHANGED <<walletVars, appSessionId, appActiveGame, gameActive>>
    /\ ShellFrame

\* handleLoad, from the load form (the mode button on the way to it has
\* cleared the export): a game found on chain becomes the active game
handleLoad(sid, found) ==
    /\ Quiescent
    /\ ~gameActive
    /\ exportedSession = <<>>
    /\ appActiveGame' = IF found THEN <<sid>> ELSE appActiveGame
    /\ gameActive' = IF found THEN TRUE ELSE gameActive
    /\ UNCHANGED <<walletVars, appSessionId, exportedSession>>
    /\ ShellFrame

\* the Enter Game (Player 1) button under the exported entry
EnterGame ==
    /\ Quiescent
    /\ ~gameActive
    /\ exportedSession # <<>>
    /\ gameActive' = TRUE
    /\ UNCHANGED <<walletVars, appSessionId, appActiveGame, exportedSession>>
    /\ ShellFrame

\* onBack of the game and the header's navigation: setGameActive(false)
onBack ==
    /\ microtasks = <<>>
    /\ gameActive
    /\ gameActive' = FALSE
    /\ UNCHANGED <<walletVars, appSessionId, appActiveGame, exportedSession>>
    /\ ShellFrame

\* the sessionId and isOnChain props App renders the game with
propSessionId == IF appActiveGame # <<>> THEN appActiveGame[1] ELSE appSessionId

propIsOnChain == appActiveGame # <<>>

\* the App as it is mounted, before the wallet connects
ShellInit ==
    /\ callVariant = "simple"
    /\ args = NoArgs
    /\ InitLocals
    /\ gameCopy = "A"
    /\ activeGame = FALSE
    /\ GameMounted
    /\ LevelGameMounted

\* the user acts between event handlers, when no continuation is waiting
ShellNext ==
    \/ microtasks = <<>> /\ \E n \in PlayerNumbers : connectDev(n)
    \/ microtasks = <<>> /\ \E n \in PlayerNumbers : switchPlayer(n)
    \/ switchPlayerInner
    \/ resumeConnect
    \/ disconnect
    \/ handleQuickstart
    \/ quickstartSecondPlayer
    \/ quickstartGoesOnline
    \/ \E ok \in BOOLEAN : quickstartSettles(ok)
    \/ quickstartDone
    \/ \E ok \in BOOLEAN : appHandlePrepare(ok)
    \/ discardExport
    \/ \E sid \in LoadedSessionIds, found \in BOOLEAN : handleLoad(sid, found)
    \/ EnterGame
    \/ onBack

ShellSpec == ShellInit /\ [][ShellNext]_vars

\* callers of the hook that do not wait for one call before the next
RaceNext ==
    \/ Len(microtasks) < MaxPending /\ \E n \in PlayerNumbers : connectDev(n)
    \/ Len(microtasks) < MaxPending /\ \E n \in PlayerNumbers : switchPlayer(n)
    \/ switchPlayerInner
    \/ resumeConnect

RaceSpec == ShellInit /\ [][RaceNext]_vars

(* ------------------- encoding and decoding the artifact ---------------- *)

\* session ids, up to the largest the arithmetic here holds, and stakes from
\* 1 up to the largest one with a high word of MaxHi
CodecSessionIds == {0, 7, 2147483647}
CodecStakes == 1..(MaxHi * I128_LO_RADIX + I128_LO_RADIX - 1)

\* prepareStartGame is about to be called with (sessionId, player1, stake);
\* the other variants are given the stand-in player2 and the stake twice
CodecInit ==
    /\ InitLocals
    /\ callVariant \in Variants
    /\ args \in {StartGameArgs(sid, p1, SimulationP2, s, s) :
                  sid \in CodecSessionIds, p1 \in Accounts, s \in CodecStakes}
    /\ gameCopy = "A"
    /\ activeGame = FALSE
    /\ GameMounted
    /\ LevelGameMounted

\* prepareStartGame from its call to its return: the simple variant encodes
\* its three arguments; the others dry-run start_game, take player1's entry
\* and have it signed
prepareStartGame ==
    /\ pc = "idle"
    /\ op = ""
    /\ op' = "prepareStartGame"
    /\ IF callVariant = "simple"
       THEN /\ exportedXDR' = <<JsonArtifact(args[1], args[2], args[4])>>
            /\ pc' = "exported"
            /\ UNCHANGED <<result, simAuth, validUntil>>
       ELSE \E creds \in CredLists(args) :
              LET obl == Obligations(creds, "start_game", args)
                  p1Entry == FindP1Entry(obl, args[2])
                  until == calculateValidUntilLedger(ledgerSeq,
                                                     MULTI_SIG_AUTH_TTL_MINUTES)
              IN /\ simAuth' = obl
                 /\ IF p1Entry = <<>>
                    THEN /\ Fail(<<"No auth entry found for Player 1">>)
                         /\ UNCHANGED <<exportedXDR, validUntil>>
                    ELSE /\ exportedXDR' =
                              <<XdrArtifact(authorizeEntry(p1Entry[1], args[2], until))>>
                         /\ validUntil' = until
                         /\ pc' = "exported"
                         /\ UNCHANGED result
    /\ UNCHANGED <<callVariant, args, player1AuthXDR, parsed, signerAddr, uiError,
                   auth, i, accountSeq, freshSeq, sims, footprint, signerAsked,
                   signerFailed, txSigned, sent, pollVars, ledgerSeq, netSeq, gameVars>>

\* parseAuthEntry applied to what prepareStartGame returned
parseExported ==
    /\ pc = "exported"
    /\ player1AuthXDR' = exportedXDR
    /\ parsed' = <<parseAuthEntry(callVariant, exportedXDR[1])>>
    /\ pc' = "done"
    /\ result' = IF parseAuthEntry(callVariant, exportedXDR[1]).ok
                 THEN Return(<<"tuple">>)
                 ELSE Throw(<<"parseAuthEntry failed">>)
    /\ UNCHANGED <<callVariant, op, args, signerAddr, uiError, auth, simAuth, i,
                   accountSeq, freshSeq, sims, footprint, validUntil, signerAsked,
                   signerFailed, txSigned, sent, pollVars, netVars, gameVars>>

CodecNext ==
    \/ prepareStartGame
    \/ parseExported

CodecSpec == CodecInit /\ [][CodecNext]_vars

(* ----------------------------- properties ---------------------------- *)

\* the imported fragment of the call in flight
Fragment == player1AuthXDR[1].entry

\* an import has handed an envelope to sendTransaction
ImportSent == op = "importAndStartGame" /\ sent # <<>>

\* the call reported success to its caller
ReportedSuccess ==
    /\ result # <<>>
    /\ result[1].kind = "return"
    /\ result[1].value \notin {<<"false">>, <<"Transaction pending...">>}

\* C1: importAndStartGame never hands sendTransaction an envelope whose
\* session id, accounts or stakes differ from the arguments recorded inside
\* the imported fragment; a fragment that does not match makes the call abort
\* before submission.
C1_FragmentArgsMatchSubmitted ==
    ImportSent =>
        /\ Fragment.fn = sent[1].fn
        /\ Fragment.args = ScArgs(sent[1].args)

\* C2: a fragment whose signature expiration ledger is at or below the
\* current ledger is never submitted by importAndStartGame.
C2_ExpiredFragmentNeverSent ==
    (op = "importAndStartGame" /\ player1AuthXDR # <<>> /\ Fragment.exp <= ledgerSeq)
        => sent = <<>>

\* C3: in every polling method of every variant, a call whose status queries
\* have so far all answered NOT_FOUND, at most NotFoundTolerance times, is
\* still polling (NOT_FOUND within the tolerance is never a failure), and when
\* the next answer is SUCCESS the call reports success.
C3_EarlyNotFoundTolerated ==
    /\ (polls >= 1 /\ polls = notFounds /\ notFounds <= NotFoundTolerance)
           => pc = "poll"
    /\ (pc = "done" /\ status = "SUCCESS" /\ polls = notFounds + 1
            /\ notFounds <= NotFoundTolerance)
           => ReportedSuccess

\* C4: the envelope importAndStartGame submits carries the sequence number of
\* the second account lookup and the footprint of a dry-run that was run
\* again after the obligations were attached.
C4_FreshSequenceAndLastDryRun ==
    ImportSent =>
        /\ sent[1].seq = freshSeq
        /\ sims = 2
        /\ sent[1].footprint = sims


\* what a method reports when its attempt budget runs out with the
\* transaction still unseen: its loop's last turn on a NOT_FOUND answer
ExhaustedResult(v, o) ==
    AfterPoll(v, o, "NOT_FOUND", "PENDING",
              (IF v = "simple" THEN RetryLimit(o) ELSE IMPORT_NOT_FOUND_RETRIES) - 1)[2]

\* C5: Success, Failed and TimedOut are told apart by the caller: a call
\* whose last status query answered FAILED reports neither success nor
\* "pending", and not the result the same method gives on an exhausted
\* budget.
C5_OutcomesDistinguishable ==
    (pc = "done" /\ polls >= 1 /\ status = "FAILED") =>
        /\ ~ReportedSuccess
        /\ result # Return(<<"Transaction pending...">>)
        /\ (~UsesAssembleSignSend(callVariant, op)
                => result # ExhaustedResult(callVariant, op))

\* the attempt budget of each polling loop; assembleSignSend names none, so
\* the largest budget of any loop is granted to it
AttemptBudget(v, o) ==
    IF v = "simple" THEN RetryLimit(o)
    ELSE IF o = "importAndStartGame" THEN IMPORT_NOT_FOUND_RETRIES
    ELSE START_GAME_RETRIES

\* C6: a polling method makes no getTransaction query when sendTransaction
\* answers ERROR, and otherwise at most its attempt budget, whatever the
\* network answers.
C6_QueriesWithinBudget ==
    op \in {"startGame", "submitScore", "endSession", "importAndStartGame"} =>
        /\ (sent # <<>> /\ polls = 0 /\ status = "ERROR") => pc = "done"
        /\ polls <= AttemptBudget(callVariant, op)

\* C7: when the signer answers a signing request with an error, the call
\* ends there with an error: nothing is handed to sendTransaction and the
\* signer is not asked again.
C7_SignerErrorStopsCall ==
    signerFailed =>
        /\ sent = <<>>
        /\ pc \notin {"signAuth", "authLoop", "signTx"}
        /\ (pc = "done" => result # <<>> /\ result[1].kind = "throw")

\* an artifact parseAuthEntry has to refuse: no decodable entry, an entry
\* that invokes another function, or a credential that names no account
Malformed(x) ==
    \/ x.kind = "text"
    \/ x.kind = "xdr" /\ (x.entry.fn # "start_game" \/ x.entry.cred # AddressCred)

\* C8: parseAuthEntry fails on an artifact whose operation is not a
\* start_game invocation or whose account cannot be recovered; it returns no
\* tuple for it.
C8_MalformedFragmentRefused ==
    (parsed # <<>> /\ Malformed(player1AuthXDR[1])) => ~parsed[1].ok

\* C9: no start_game envelope handed to sendTransaction has a stake that is
\* zero or negative, whether the stake was typed or came out of an imported
\* artifact.
C9_NoNonPositiveStakeSent ==
    (sent # <<>> /\ sent[1].fn = "start_game") =>
        /\ sent[1].args[4] > 0
        /\ sent[1].args[5] > 0

\* the envelope carries the initiator's signed fragment
CarriesFragment == \E k \in 1..Len(sent[1].auth) : sent[1].auth[k] = Fragment

\* the envelope carries the counterpart's authorization: an address entry
\* signed by player2, or a source-account entry under player2's envelope
\* signature
CarriesCounterpart ==
    \E k \in 1..Len(sent[1].auth) :
        \/ /\ sent[1].auth[k].cred = AddressCred
           /\ sent[1].auth[k].addr = sent[1].args[3]
           /\ sent[1].auth[k].sig = sent[1].args[3]
        \/ /\ sent[1].auth[k].cred = SourceCred
           /\ sent[1].signed

\* C10: every envelope importAndStartGame submits carries both the
\* initiator's signed fragment and the counterpart's signed obligation; when
\* the dry-run named no obligation for one of the two accounts nothing is
\* submitted.
C10_BothAuthorizationsCarried ==
    ImportSent => CarriesFragment /\ CarriesCounterpart


\* the merge loop of the import in flight has run to its end
MergeDone ==
    /\ op = "importAndStartGame"
    /\ pc \in {"freshAccount", "finalSim", "signTx", "send", "poll"}

\* what the merge has to leave in the place of a dry-run entry e
MergedEntry(e) ==
    IF e.cred = AddressCred /\ e.addr = Fragment.addr THEN Fragment
    ELSE IF e.cred = AddressCred /\ e.addr = args[3]
    THEN [e EXCEPT !.sig = args[3], !.exp = validUntil]
    ELSE e

\* C11: whatever the order of the dry-run's obligation list, once the merge
\* loop of importAndStartGame has ended every entry naming the fragment's
\* account is the imported fragment itself, every entry naming player2 carries
\* player2's signature, and every other entry is as the dry-run returned it.
C11_MergeByAddress ==
    MergeDone =>
        /\ Len(auth) = Len(simAuth)
        /\ \A k \in 1..Len(auth) : auth[k] = MergedEntry(simAuth[k])

\* C11 witness: the dry-run listed player2 before the initiator and both
\* entries were merged
C11_Witness ==
    /\ MergeDone
    /\ Len(simAuth) = 2
    /\ simAuth[1].cred = AddressCred /\ simAuth[1].addr = args[3]
    /\ simAuth[2].cred = AddressCred /\ simAuth[2].addr = Fragment.addr
    /\ auth[2] = Fragment
    /\ auth[1].sig = args[3]
    /\ Fragment.addr # args[3]


\* The contract's start_game as the ledger applies it: the session recorded
\* for an envelope that reached SUCCESS (GameState of the bindings, read back
\* by getGame)
StartedSession(env) ==
    [sessionId |-> env.args[1], player1 |-> env.args[2], player2 |-> env.args[3],
     stake1 |-> env.args[4], stake2 |-> env.args[5], winner |-> "None"]

C21_NoObligationNoSignature ==
    (op = "prepareStartGame" /\ sims >= 1) =>
        /\ (\A k \in 1..Len(simAuth) :
                ~(simAuth[k].cred = AddressCred /\ simAuth[k].addr = args[2])) =>
              /\ pc = "done"
              /\ result # <<>> /\ result[1].kind = "throw"
              /\ signerAsked = 0
              /\ exportedXDR = <<>>
        /\ (pc = "done" /\ Returned) =>
              /\ signerAsked = 1
              /\ exportedXDR # <<>>
              /\ exportedXDR[1].entry.cred = AddressCred
              /\ exportedXDR[1].entry.addr = args[2]
              /\ exportedXDR[1].entry.sig = args[2]
              /\ \E k \in 1..Len(simAuth) :
                    /\ simAuth[k] = [exportedXDR[1].entry EXCEPT !.sig = "", !.exp = 0]
                    /\ \A m \in 1..(k - 1) :
                          ~(simAuth[m].cred = AddressCred /\ simAuth[m].addr = args[2])
              /\ auth = <<exportedXDR[1].entry>>

\* C21 witness: a dry-run that named the counterpart and the source account,
\* but not player1, made the call fail with the signer never asked
C21_Witness ==
    /\ op = "prepareStartGame"
    /\ pc = "done"
    /\ Len(simAuth) = 2
    /\ simAuth[1].cred = AddressCred /\ simAuth[1].addr = SimulationP2
    /\ simAuth[2].cred = SourceCred
    /\ result[1].kind = "throw"
    /\ signerAsked = 0
    /\ exportedXDR = <<>>

\* C22: a polling loop whose caller has gone away stops: once the player has
\* returned to the menu while Finalize's endSession is still in flight, no
\* further status query is issued and the call updates no state of the
\* component (finalized, finishing).
C22_AbandonedPollStops ==
    [][(phase = "idle" /\ op = "endSession" /\ sent # <<>>) =>
           /\ polls' = polls
           /\ finalized' = finalized
           /\ finishing' = finishing]_vars

\* C23: for every seed and every level L in 1..3 generateTrack returns
\* WALLS_PER_LEVEL[L] walls (7, 9, 13); the first lies 400 from the start, each
\* next one TRACK_SPACING[L] further, so the distances strictly increase and no
\* two walls (WALL_H deep) overlap; trackLength is the last distance plus the
\* spacing plus 200. None of these depends on the seed.
C23_LayoutFromLevelOnly ==
    (track # <<>> /\ trackLevel \in 1..3) =>
        LET ws == track[1].value.walls
            n == IF trackLevel = 1 THEN 7 ELSE IF trackLevel = 2 THEN 9 ELSE 13
            gap == IF trackLevel = 1 THEN 420 ELSE IF trackLevel = 2 THEN 340 ELSE 260
        IN /\ track[1].kind = "return"
           /\ Len(ws) = n
           /\ -ws[1].worldY = 400
           /\ \A k \in 1..(n - 1) :
                 /\ -ws[k + 1].worldY = -ws[k].worldY + gap
                 /\ -ws[k + 1].worldY > -ws[k].worldY + WALL_H
           /\ track[1].value.trackLength = <<-ws[n].worldY + gap + 200>>

\* C23 witness: the track of level 1 for session 42, seven walls from 400 to
\* 2920
C23_Witness ==
    /\ track # <<>>
    /\ trackLevel = 1
    /\ trackSeed = <<0, 42>>
    /\ Len(track[1].value.walls) = 7
    /\ track[1].value.walls[1].worldY = -400
    /\ track[1].value.walls[7].worldY = -2920
    /\ track[1].value.trackLength = <<3540>>

\* C24: every generated course is winnable. A winning run has the cube inside
\* gap k at the last test of wall k and inside gap k + 1 at the first test of
\* wall k + 1, so the two gaps are no further apart than the cube can travel
\* sideways in the frames between, plus the play GAP_W - CUBE_W inside a gap.
C24_CourseWinnable ==
    (track # <<>> /\ trackLevel \in 1..3) =>
        \A k \in 1..(Len(track[1].value.walls) - 1) :
            Abs(track[1].value.walls[k + 1].gapX - track[1].value.walls[k].gapX)
                <= (GAP_W - LEVEL_CUBE_W) + STEER_STEP * FramesBetweenWalls(trackLevel)

\* C28: a crash never lowers or clears the saved level; from 'dead', retry
\* restarts the countdown at the level the player crashed on; the saved level
\* changes only when a level is completed: it goes up to the next level after
\* level 1 or 2 and is cleared after level 3.
C28_CrashKeepsProgress ==
    [][/\ (levelPhase = "playing" /\ levelPhase' = "dead") =>
               (storedLevel' = storedLevel /\ sLevel' = sLevel)
       /\ (levelPhase = "dead" /\ levelPhase' = "countdown") =>
               (storedLevel' = storedLevel /\ sLevel' = sLevel)
       /\ (storedLevel' # storedLevel) =>
               /\ levelPhase = "playing"
               /\ Len(levelRecords') = Len(levelRecords) + 1
               /\ \/ /\ sLevel \in {1, 2}
                     /\ storedLevel' = <<sLevel + 1>>
                     /\ sLevel + 1 > savedLevel
                     /\ levelPhase' = "levelup"
                  \/ /\ sLevel = 3
                     /\ storedLevel' = <<>>
                     /\ levelPhase' = "done"]_vars

\* C28 witness: the player completed level 1 and then crashed on level 2,
\* which is still the saved level
C28_Witness ==
    /\ levelPhase = "dead"
    /\ sLevel = 2
    /\ storedLevel = <<2>>
    /\ Len(levelRecords) = 1

\* C29: whenever the level game is 'done', levelRecords holds levels 1, 2 and
\* 3 in this order and the total time is the sum of their three times,
\* whatever crashes, retries and resumed sessions came before.
C29_TotalIsAllThreeLevels ==
    levelPhase = "done" =>
        /\ Len(levelRecords) = 3
        /\ \A k \in 1..3 : levelRecords[k].level = k
        /\ totalTimeMs = levelRecords[1].timeMs + levelRecords[2].timeMs
                             + levelRecords[3].timeMs

\* C30: in the endless-run game the phase state of the component equals
\* g.current.phase after every event, so the overlay shown matches the phase
\* the keyboard handler and the loop act on.
C30_OverlayMatchesLoopPhase == phase = loopPhase

\* C25: whenever nothing is running and getContractSigner returns a signer,
\* the signer signs with the key of the account the store shows as connected.
C25_SignerIsShownAccount ==
    (Quiescent /\ getContractSigner # "") => getContractSigner = walletStore.publicKey

\* C26: once every connectDev and switchPlayer call has completed, the
\* store's publicKey is the key of the store's currentPlayer and
\* isConnecting is false.
C26_StoreConsistentAfterCalls ==
    (microtasks = <<>> /\ walletStore.isConnected)
        => /\ walletStore.publicKey = PlayerKey(walletStore.currentPlayer)
           /\ ~walletStore.isConnecting

\* C27: the Enter Game button after Prepare & Export hands the game the
\* session just prepared, and no active game of another session.
C27_EnterGameUsesPreparedSession ==
    [][(Quiescent /\ ~gameActive /\ gameActive' /\ exportedSession # <<>>)
          => /\ propSessionId' = exportedSession[1]
             /\ propIsOnChain' => appActiveGame'[1] = exportedSession[1]]_vars

\* C14: the client never has two transactions of one account in flight that
\* were built from the same account sequence number; the end_session write of
\* Finalize is built only after the run's submit_score has settled.
C14_OneWritePerSequenceNumber ==
    ~(/\ op = "endSession"
      /\ pc = "poll"
      /\ sent # <<>>
      /\ scoreCall.pc = "poll"
      /\ sent[1].args[2] = Alice
      /\ sent[1].seq = scoreCall.seq)

\* C15: the UI records an on-chain effect only after the transaction was
\* seen with status SUCCESS: activeGame is set only when importAndStartGame
\* ended on SUCCESS, finalized only when endSession did.
C15_UiRecordsOnlySuccess ==
    [][/\ (activeGame' /\ ~activeGame) => status = "SUCCESS"
       /\ (finalized' /\ ~finalized) => status = "SUCCESS"]_vars

\* C16: the walls of a run are those regenerated from the session's seed, so
\* every player of the session and every verifier gets the same course.
C16_CourseFromSessionSeed ==
    phase \in {"countdown", "playing", "dead", "done"} =>
        \A k \in 1..Len(walls) :
            \E j \in 1..Len(Course(gameCopy, gameSessionId, difficulty)) :
                walls[k] = Course(gameCopy, gameSessionId, difficulty)[j]

\* C18: for every seed and every level in 1..3, each wall generateTrack
\* returns has its gap [gapX, gapX + GAP_W] inside the road [0, ROAD_W] and at
\* least WALL_GAP_PADDING from the left edge, and the gap, GAP_W wide, is at
\* least as wide as the cube.
C18_GapInsideRoad ==
    (track # <<>> /\ trackLevel \in 1..3) =>
        /\ track[1].kind = "return"
        /\ Len(track[1].value.walls) = WALLS_PER_LEVEL[trackLevel]
        /\ \A k \in 1..Len(track[1].value.walls) :
             /\ track[1].value.walls[k].gapX >= WALL_GAP_PADDING
             /\ track[1].value.walls[k].gapX >= 0
             /\ track[1].value.walls[k].gapX + GAP_W <= LEVEL_ROAD_W
        /\ GAP_W >= LEVEL_CUBE_W

\* a level-3 track was generated whose gaps reach into the rightmost and into
\* the leftmost tenth of the range the generator draws from
C18_Witness ==
    /\ track # <<>>
    /\ trackLevel = 3
    /\ Len(track[1].value.walls) = 13
    /\ \E k \in 1..13 : track[1].value.walls[k].gapX + GAP_W > LEVEL_ROAD_W - 72
    /\ \E k \in 1..13 : track[1].value.walls[k].gapX < 72

\* C19: generateTrack called with a level outside 1..3 fails with an
\* InvalidLevel error instead of returning a layout.
C19_InvalidLevelFailsFast ==
    (track # <<>> /\ trackLevel \notin 1..3) => track[1].kind = "throw"

\* C20: a run that ended in a crash is never submitted: submitScore is
\* called only after the cube crossed the finish line.
C20_CrashNeverSubmitted ==
    scoreCall.pc # "none" => scoreCall.after = "done"

=============================================================================
